---- MODULE Spec2Model ----
(***************************************************************************)
(* Model of the infinity-space backend: the WebSocket session manager and  *)
(* its in-memory operation ledger (backend/src/ws.js) and the analysis     *)
(* pipeline analyzeAndStore (backend/src/services/analyzer.js), and of the *)
(* browser's side: the request client (frontend/src/lib/wsClient.js), the  *)
(* camera controller (frontend/src/lib/import/cameras.js), the recognition *)
(* loop (frontend/src/lib/import/vision.js) and the upload manager of the  *)
(* import page.                                                            *)
(*                                                                         *)
(* Several specifications are defined over the same variables:             *)
(*   Spec          one socket, its message handlers and the pipeline with  *)
(*                 every outcome of every external call;                   *)
(*   FairSpec      invocations for one item on a socket the client may     *)
(*                 close, every external call returning or throwing;       *)
(*   StoreSpec     invocations for one item whose calls succeed, with the  *)
(*                 clock running: the read-merge-write cycles of the store;*)
(*   ParseSpec     invocations for one item whose inference responses are  *)
(*                 parsed or cannot be parsed;                             *)
(*   ProtocolSpec  the message handler with the messages it rejects;       *)
(*   LivenessSpec  the interval's liveness pass and the sockets it probes; *)
(*   LedgerSpec    the ledger alone (recordOperationEvent, pruneOperations *)
(*                 and the connect-time snapshot) driven by directly       *)
(*                 injected events, with enough scans to pass the size     *)
(*                 limit of the table;                                     *)
(*   ConnectSpec   LedgerSpec until a client connects;                     *)
(*   RecordSpec    the entry of one scan under events of every kind;       *)
(*   ClientSpec    the browser's client: its socket, its pending requests, *)
(*                 their timers and its outgoing queue;                    *)
(*   ClientFairSpec ClientSpec with every armed request timer firing;      *)
(*   PageSpec      one camera of the import page: its stream, its panel    *)
(*                 and its recognition loop;                               *)
(*   PageFairSpec  PageSpec with the acquisition returning, the timers     *)
(*                 firing and the loop reaching its condition;             *)
(*   UploadSpec    one history entry of the upload manager: uploadEntry    *)
(*                 and the status events of the server.                    *)
(***************************************************************************)
EXTENDS Integers, Sequences, FiniteSets, TLC

(***************************************************************************)
(* Program constants                                                       *)
(***************************************************************************)
\* ws.js:12
MAX_OPERATIONS == 50
\* ws.js:13   1000 * 60 * 15
OPERATION_TTL_MS == 900000

(***************************************************************************)
(* Bounds of the model                                                     *)
(***************************************************************************)
\* sockets that may ever be accepted (each socket id is used once)
MaxConns == 2
\* inbound pipeline requests over the whole run
MaxReqs == 2
\* the clock of Spec runs from 1 to MaxClock
MaxClock == 2
\* scans (item identifiers) of Spec: 1..MaxScans
MaxScans == 2
\* blob keys of Spec: 1..MaxKeys
MaxKeys == 2
\* ping messages a client sends on one socket
MaxPings == 1
\* scans of LedgerSpec: 1..MaxLedgerScans
MaxLedgerScans == 102
\* events kept per entry in LedgerSpec
MaxLedgerEvents == 2
\* the clock of LedgerSpec takes the values 1..MaxSlack and
\* OPERATION_TTL_MS + 1 .. OPERATION_TTL_MS + MaxSlack
MaxSlack == 2
\* in LedgerSpec a table of more than QuietLen and fewer than
\* 2 * MAX_OPERATIONS entries is filled by a burst of first events of new
\* scans: nothing else happens between these sizes, and only a table of at
\* most QuietLen entries sees a second event of a scan
QuietLen == 2
\* events kept per entry in RecordSpec
MaxRecordEvents == 3
\* requests the browser issues in ClientSpec
MaxClientReqs == 2
\* sockets the browser creates in ClientSpec
MaxSockets == 3
\* streams getUserMedia is asked for in PageSpec
MaxStreams == 2
\* images of the entry in UploadSpec
MaxUploads == 2
\* timestamps of the status events delivered in UploadSpec
MaxStamp == 2
\* status events an entry is given beside those it already holds
MaxEntryEvents == 1

Conns == 1..MaxConns
Reqs == 1..MaxReqs
Scans == 1..MaxScans
Keys == 1..MaxKeys
LedgerScans == 1..MaxLedgerScans
MaxLedgerNow == OPERATION_TTL_MS + MaxSlack

\* payload?.scan is undefined (malformed message): sendStatus skips the ledger
NoScan == 0
\* entry.result before the completed event; data: {} of the error status
NoResult == 0
NoKey == 0
\* the inference response holds no detected text (or could not be parsed)
NoText == 0
\* requestId: undefined (the message could not be parsed)
NoId == 0

VARIABLES
    operations,   \* ws.js:11  the Map, as the sequence of its values in insertion order
    now,          \* Date.now()
    lastAct,      \* what ran last: "prune" (the interval), "snapshot",
                  \* "record" (RecordSpec), "other"
    lastPruned,   \* entries deleted by the last pruneOperations() call of the last step
    snap,         \* LedgerSpec: the snapshot the last step computed (ws.js:99-101)
    connState,    \* per socket: "new", "open", "closed"
    isAlive,      \* socket.isAlive
    unanswered,   \* per socket: probes sent since the last pong
    closedBy,     \* per socket: "none", "client", "liveness"
    sent,         \* per socket: messages the server wrote to the socket
    req,          \* per request: the invocation's position and locals
    store,        \* the record store (DynamoDB table), keyed by scan
    writers,      \* per scan: the requests whose PutCommand succeeded, in order
    client,       \* the browser's wsClient module (ClientSpec)
    camera,       \* one camera of the import page (PageSpec)
    vision,       \* the vision state of that camera (PageSpec)
    hist          \* one entry of the page's scan history (UploadSpec)

\* the state of the browser, which no step of the backend changes
browserVars == <<client, camera, vision, hist>>

vars == <<operations, now, lastAct, lastPruned, snap, connState, isAlive,
          unanswered, closedBy, sent, req, store, writers, client, camera, vision,
          hist>>

(***************************************************************************)
(* Event names (the strings of the source)                                 *)
(***************************************************************************)
EvQueued == "analysis.queued"
EvStarted == "analysis.started"
EvFetchStart == "analysis.s3.fetch.start"
EvFetchSuccess == "analysis.s3.fetch.success"
EvFetchError == "analysis.s3.fetch.error"
EvAiRequest == "analysis.ai.request"
EvAiSuccess == "analysis.ai.success"
EvAiError == "analysis.ai.error"
EvDbWrite == "analysis.db.write"
EvDbSuccess == "analysis.db.success"
EvDbError == "analysis.db.error"
EvCompleted == "analysis.completed"
EvError == "error"

\* eventPayload.event?.includes('error') over the event names above
IncludesError(event) ==
    event \in {EvFetchError, EvAiError, EvDbError, EvError}

(***************************************************************************)
(* The operation ledger                                                    *)
(***************************************************************************)
\* a loop that deletes the expired entries and never looks at the size
PruneDeletesExpired(entry, size, cutoff) == entry.updatedAt < cutoff

\* a loop that deletes an entry only when it is both expired and over the limit
PruneDeletesBoth(entry, size, cutoff) ==
    entry.updatedAt < cutoff /\ size > MAX_OPERATIONS * 2

\* true when the entry is deleted by the loop of pruneOperations, given the
\* current size of the Map
PruneDeletes(entry, size, cutoff) ==
    entry.updatedAt < cutoff \/ size > MAX_OPERATIONS * 2

\* one iteration of the for loop of pruneOperations.  loop.size is
\* operations.size, loop.kept the entries visited and left in the Map,
\* loop.gone the entries deleted, each with the reason: bySize is TRUE when
\* the entry was not older than the cutoff
PruneVisit(loop, entry, cutoff) ==
    IF PruneDeletes(entry, loop.size, cutoff)
    THEN [loop EXCEPT !.size = @ - 1,
                      !.gone = Append(@, [scan |-> entry.scan,
                                          updatedAt |-> entry.updatedAt,
                                          bySize |-> ~(entry.updatedAt < cutoff)])]
    ELSE [loop EXCEPT !.kept = Append(@, entry)]

\* the iterations over ops[lo..hi], in insertion order.  The range is halved
\* and the first half is evaluated (its size is read) before the second half
\* is entered, so that the evaluation of a long loop stays shallow.
RECURSIVE PruneLoop(_, _, _, _, _)
PruneLoop(ops, lo, hi, loop, cutoff) ==
    IF lo > hi THEN loop
    ELSE IF lo = hi THEN PruneVisit(loop, ops[lo], cutoff)
    ELSE LET mid == (lo + hi) \div 2
             first == PruneLoop(ops, lo, mid, loop, cutoff)
         IN  IF first.size >= 0
             THEN PruneLoop(ops, mid + 1, hi, first, cutoff)
             ELSE first

PruneRun(ops, t) ==
    PruneLoop(ops, 1, Len(ops), [size |-> Len(ops), kept |-> <<>>, gone |-> <<>>],
              t - OPERATION_TTL_MS)

\* pruneOperations(): the Map after the call
pruneOperations(ops, t) == PruneRun(ops, t).kept

\* the entries pruneOperations() deletes, in deletion order
prunedBy(ops, t) == PruneRun(ops, t).gone

\* operations.get(scan): index of the entry, 0 when absent
IndexOf(ops, scan) ==
    IF \E i \in 1..Len(ops) : ops[i].scan = scan
    THEN CHOOSE i \in 1..Len(ops) : ops[i].scan = scan
    ELSE 0

\* a recomputation in which a failure, once recorded, is final
UpdatedEntrySticky(entry, eventPayload, t) ==
    LET pushed == [entry EXCEPT !.events = Append(@, eventPayload),
                                !.updatedAt = t,
                                !.status = IF IncludesError(eventPayload.event)
                                           THEN "error" ELSE @]
    IN  IF eventPayload.event = EvCompleted /\ entry.status # "error"
        THEN [pushed EXCEPT !.status = "completed", !.result = eventPayload.data]
        ELSE pushed

\* an entry that keeps its newest event first
UpdatedEntryUnshift(entry, eventPayload, t) ==
    LET pushed == [entry EXCEPT !.events = <<eventPayload>> \o @,
                                !.updatedAt = t,
                                !.status = IF IncludesError(eventPayload.event)
                                           THEN "error" ELSE @]
    IN  IF eventPayload.event = EvCompleted
        THEN [pushed EXCEPT !.status = "completed", !.result = eventPayload.data]
        ELSE pushed

\* the entry after the event has been pushed and the status recomputed
UpdatedEntry(entry, eventPayload, t) ==
    LET pushed == [entry EXCEPT !.events = Append(@, eventPayload),
                                !.updatedAt = t,
                                !.status = IF IncludesError(eventPayload.event)
                                           THEN "error" ELSE @]
    IN  IF eventPayload.event = EvCompleted
        THEN [pushed EXCEPT !.status = "completed", !.result = eventPayload.data]
        ELSE pushed

\* recordOperationEvent(scan, eventPayload): the Map after the call
recordOperationEvent(ops, scan, eventPayload, t) ==
    IF scan = NoScan THEN ops
    ELSE LET pruned == pruneOperations(ops, t)
             i == IndexOf(pruned, scan)
             entry == IF i = 0
                      THEN [scan |-> scan, events |-> <<>>, status |-> "pending",
                            updatedAt |-> t, result |-> NoResult]
                      ELSE pruned[i]
             next == UpdatedEntry(entry, eventPayload, t)
         IN  IF i = 0 THEN Append(pruned, next)
             ELSE [pruned EXCEPT ![i] = next]

\* the greatest updatedAt of a non-empty list
Newest(ops) ==
    CHOOSE t \in {ops[i].updatedAt : i \in 1..Len(ops)} :
        \A i \in 1..Len(ops) : ops[i].updatedAt <= t

\* sort((a, b) => b.updatedAt - a.updatedAt): updatedAt descending, entries
\* of equal updatedAt in their order in the Map (Array.prototype.sort is stable)
RECURSIVE SortDesc(_)
SortDesc(ops) ==
    IF ops = <<>> THEN <<>>
    ELSE LET IsNewest(e) == e.updatedAt = Newest(ops)
             IsOlder(e) == e.updatedAt < Newest(ops)
         IN  SelectSeq(ops, IsNewest) \o SortDesc(SelectSeq(ops, IsOlder))

\* a snapshot cut from the Map in insertion order, without the sort
SnapshotInMapOrder(ops) ==
    SubSeq(ops, 1, IF Len(ops) < MAX_OPERATIONS THEN Len(ops) ELSE MAX_OPERATIONS)

\* Array.from(operations.values()).sort(...).slice(0, MAX_OPERATIONS)
Snapshot(ops) ==
    LET sorted == SortDesc(ops)
    IN  SubSeq(sorted, 1, IF Len(sorted) < MAX_OPERATIONS THEN Len(sorted)
                          ELSE MAX_OPERATIONS)

\* the status payload built by sendStatus (data is the key it carries;
\* fileName and timestamp are read by no handler and left out).  The message
\* of a stage event is a text fixed at its call site, named here after the
\* event; the error status carries the message of the error instead.
StatusPayload(rid, scan, event, key) ==
    [type |-> "status", requestId |-> rid, scan |-> scan, event |-> event,
     message |-> event, data |-> key]

(***************************************************************************)
(* The record store and the merge of analyzeAndStore                       *)
(***************************************************************************)
\* createEmptyRecord(scan) for the modelled fields: meta.created_at,
\* meta.updated_at ('' is 0), media (the s3_key of each entry), ocr.raw_text,
\* extra.raw_response (an envelope, NoEnvelope when absent), item.model ('' and
\* the placeholder 'UNKNOWN' are NoText), and under leaves four of the string
\* leaves no extractor of analyzeAndStore writes.  present is FALSE for an
\* item the table does not hold (existing.Item undefined).
StringLeaves == {"item.line", "codes.upc", "inventory.owner", "visual.wheels.style"}

\* the inference envelope {id, model, output, raw_text} of a response: its
\* id and its parsed output (NoText when parsedAnalysis is null); model is
\* the configured model and raw_text the text the output was parsed from
Envelope(responseId, parsedAnalysis) == [id |-> responseId, output |-> parsedAnalysis]

NoEnvelope == Envelope(NoId, NoText)

EmptyRecord ==
    [present |-> FALSE, created_at |-> 0, updated_at |-> 0, media |-> <<>>,
     raw_text |-> <<>>, raw_response |-> NoEnvelope, model |-> NoText,
     leaves |-> [leaf \in StringLeaves |-> ""]]

\* UNKNOWN_VALUE (analyzer.js:11)
UNKNOWN_VALUE == "UNKNOWN"

\* the modelled leaves that are among the placeholderPaths of
\* ensurePlaceholders (analyzer.js:175-201)
placeholderPaths == {"item.line", "codes.upc"}

\* ensurePlaceholders(record): a listed leaf that is empty becomes 'UNKNOWN'
ensurePlaceholders(leaves) ==
    [leaf \in StringLeaves |->
        IF leaf \in placeholderPaths /\ leaves[leaf] = ""
        THEN UNKNOWN_VALUE ELSE leaves[leaf]]

\* a text pool that is the concatenation [...a, ...b]
ConcatSeq(a, b) == a \o b

\* Array.from(new Set([...a, ...b])): order-preserving union
RECURSIVE UnionSeq(_, _)
UnionSeq(a, b) ==
    IF b = <<>> THEN a
    ELSE IF \E i \in 1..Len(a) : a[i] = Head(b)
         THEN UnionSeq(a, Tail(b))
         ELSE UnionSeq(Append(a, Head(b)), Tail(b))

\* parsedAnalysis.detected_text of the inference response: empty when the
\* response could not be parsed or holds no text
DetectedText(text) == IF text = NoText THEN <<>> ELSE <<text>>

\* a media list to which every ingest appends its entry
AddMediaAlways(media, key) == Append(media, key)

\* record.media after the dedup by s3_key (analyzer.js:468-471)
AddMedia(media, key) ==
    IF \E i \in 1..Len(media) : media[i] = key THEN media
    ELSE Append(media, key)

\* meta.created_at = record.meta.created_at || nowIso
StampCreated(created, nowIso) == IF created = 0 THEN nowIso ELSE created

\* carName of the inference response: its car_name unless that is empty or
\* 'UNKNOWN' (the vehicle read off an image is named after the image's key)
CarName(text) == text

\* if (carName && (!record.item.model || record.item.model === UNKNOWN_VALUE))
\*     record.item.model = carName
FillModel(current, carName) ==
    IF carName # NoText /\ current = NoText THEN carName ELSE current

\* an envelope merged into the stored one: what the new response lacks is
\* kept from the stored envelope
RawResponseMerged(stored, envelope) ==
    [envelope EXCEPT !.output = IF @ = NoText THEN stored.output ELSE @]

\* record.extra.raw_response = {id, model, output, raw_text}: an assignment
RawResponse(stored, envelope) == envelope

\* the record analyzeAndStore builds from the item it read (analyzer.js:361-531)
MergeRecord(existing, key, text, responseId, nowIso) ==
    [present |-> TRUE,
     created_at |-> StampCreated(existing.created_at, nowIso),
     updated_at |-> nowIso,
     media |-> AddMedia(existing.media, key),
     raw_text |-> UnionSeq(existing.raw_text, DetectedText(text)),
     raw_response |-> RawResponse(existing.raw_response, Envelope(responseId, text)),
     model |-> FillModel(existing.model, CarName(text)),
     leaves |-> ensurePlaceholders(existing.leaves)]

\* a write that merges the record into the stored item instead of replacing it
PutItemMerging(table, scan, record) ==
    [table EXCEPT ![scan] =
        [record EXCEPT !.media = UnionSeq(table[scan].media, record.media),
                       !.raw_text = UnionSeq(table[scan].raw_text, record.raw_text)]]

\* the table after PutCommand({Item: record}): the item is replaced
PutItem(table, scan, record) == [table EXCEPT ![scan] = record]

(***************************************************************************)
(* Sending                                                                 *)
(***************************************************************************)
\* A "world" w carries what a synchronous run of a handler changes:
\*   ops  the ledger, out  the messages written to the handler's socket,
\*   gone the entries deleted by the last pruneOperations() call,
\*   trace the events the invocation passed to sendStatus.
World(c, r) ==
    [ops |-> operations, out |-> sent[c], gone |-> <<>>,
     trace |-> IF r = 0 THEN <<>> ELSE req[r].trace]

\* a sendJSON that puts the payload in front of what the socket was sent
sendJSONInFront(w, c, payload) ==
    IF connState[c] = "open" THEN [w EXCEPT !.out = <<payload>> \o @] ELSE w

\* sendJSON(socket, payload): written only when readyState is OPEN
sendJSON(w, c, payload) ==
    IF connState[c] = "open" THEN [w EXCEPT !.out = Append(@, payload)] ELSE w

\* a sendStatus that returns at once when the socket is no longer open
sendPayloadIfOpen(w, c, scan, payload) ==
    IF connState[c] = "open"
    THEN [w EXCEPT !.ops = recordOperationEvent(w.ops, scan, payload, now),
                   !.gone = prunedBy(w.ops, now),
                   !.trace = Append(@, payload.event),
                   !.out = Append(@, payload)]
    ELSE [w EXCEPT !.trace = Append(@, payload.event)]

\* sendStatus once its payload is built: the ledger, then the socket
sendPayload(w, c, scan, payload) ==
    LET recorded(v) == IF scan = NoScan THEN v
                       ELSE [v EXCEPT !.ops = recordOperationEvent(v.ops, scan, payload, now),
                                      !.gone = prunedBy(v.ops, now)]
    IN  CHOOSE after \in {sendJSON([recorded(v) EXCEPT !.trace = Append(@, payload.event)],
                                   c, payload) : v \in {w}} : TRUE

\* sendStatus(socket, {requestId, scan, event, data})
sendStatus(w, c, rid, scan, event, key) ==
    sendPayload(w, c, scan, StatusPayload(rid, scan, event, key))

RECURSIVE sendStatuses(_, _, _, _, _, _)
sendStatuses(w, c, rid, scan, events, key) ==
    IF events = <<>> THEN w
    ELSE sendStatuses(sendStatus(w, c, rid, scan, Head(events), key),
                      c, rid, scan, Tail(events), key)

\* a sendError that answers with the error response alone
sendErrorNoStatus(w, c, rid, scan, message) ==
    sendJSON(w, c, [type |-> "error", requestId |-> rid, message |-> message])

\* a sendError that reports the failure as a status and sends no response
sendErrorStatusOnly(w, c, rid, scan, message) ==
    sendPayload(w, c, scan,
                [StatusPayload(rid, scan, EvError, NoKey) EXCEPT !.message = message])

\* sendError(socket, {requestId, error, scan}): message is error.message
sendError(w, c, rid, scan, message) ==
    sendJSON(sendPayload(w, c, scan,
                         [StatusPayload(rid, scan, EvError, NoKey)
                             EXCEPT !.message = message]),
             c, [type |-> "error", requestId |-> rid, message |-> message])

\* the catch block of the message handler (ws.js:282-285) after the events
\* the pipeline emitted before it threw an error with this message
FailWith(w, c, rid, scan, events, key, message) ==
    sendError(sendStatuses(w, c, rid, scan, events, key), c, rid, scan, message)

(***************************************************************************)
(* The browser's client module (frontend/src/lib/wsClient.js)              *)
(***************************************************************************)
ClientReqs == 1..MaxClientReqs

\* the request types the pages send through sendRequest
RequestTypes == {"presign_request", "upload_complete"}

\* the messages of the error responses a well-formed request can be given
ServerErrorTexts == {"validation", "Unsupported message type"}

NoMessage == "absent"

\* the three reasons a promise is rejected with; each is new Error(text)
TimeoutError(type) == <<"Request timed out: ", type>>
DisconnectError == <<"WebSocket disconnected">>
ServerError(message) == <<IF message = NoMessage THEN "Request failed" ELSE message>>

Unsettled == [state |-> "pending", reason |-> <<>>]
Resolved == [state |-> "resolved", reason |-> <<>>]
RejectedWith(reason) == [state |-> "rejected", reason |-> reason]

\* the module once it is loaded: connect() has created the first socket
\*   sock      readyState of socket
\*   older     readyState of each socket created before it, oldest first
\*   reconnectTimer  TRUE while the variable holds a timer
\*   timers    the reconnect timers scheduled and not yet fired
\*   attempts  reconnectAttempts
\*   pending   keys of the pending Map
\*   queue     the encoded messages waiting for an open socket
\*   timer     per request: its setTimeout ("none", "armed", "fired", "cleared")
\*   type      per request: the type sendRequest was given
\*   promise   per request: the state of the promise sendRequest returned
\*   settles   per request: the calls of its resolve and reject so far
\*   wire      what socket.send was given, with whether the request was then
\*             pending and whether flushQueue sent it
\*   onSocket  requests sent on the present socket and not answered on it
\*   late      requests a response came for when pending had no entry
ClientInit ==
    [sock |-> "connecting", older |-> <<>>, reconnectTimer |-> FALSE,
     timers |-> 0, attempts |-> 0, pending |-> {}, queue |-> <<>>,
     timer |-> [i \in ClientReqs |-> "none"],
     type |-> [i \in ClientReqs |-> "none"],
     promise |-> [i \in ClientReqs |-> Unsettled],
     settles |-> [i \in ClientReqs |-> 0],
     wire |-> <<>>, onSocket |-> {}, late |-> {}]

\* the state of a promise after resolve or reject was called with this
\* outcome: the first call settles it, a later call has no effect
Settled(promise, outcome) == IF promise = Unsettled THEN outcome ELSE promise

\* socket.send(encoded) of request id
Transmit(cl, id, flushed) ==
    [cl EXCEPT !.wire = Append(@, [id |-> id, live |-> id \in cl.pending,
                                   flushed |-> flushed]),
               !.onSocket = @ \cup {id}]

\* flushQueue(): the queue is emptied into the socket while it is open
RECURSIVE flushQueue(_)
flushQueue(cl) ==
    IF cl.queue # <<>> /\ cl.sock = "open"
    THEN flushQueue(Transmit([cl EXCEPT !.queue = Tail(@)], Head(cl.queue), TRUE))
    ELSE cl

\* rejectAllPending(reason)
rejectAllPending(cl, reason) ==
    [cl EXCEPT !.timer = [i \in ClientReqs |->
                             IF i \in cl.pending THEN "cleared" ELSE @[i]],
               !.promise = [i \in ClientReqs |->
                               IF i \in cl.pending THEN Settled(@[i], RejectedWith(reason))
                               ELSE @[i]],
               !.settles = [i \in ClientReqs |->
                               IF i \in cl.pending THEN @[i] + 1 ELSE @[i]],
               !.pending = {}]

\* scheduleReconnect()
scheduleReconnect(cl) ==
    IF cl.reconnectTimer THEN cl
    ELSE [cl EXCEPT !.attempts = @ + 1, !.reconnectTimer = TRUE, !.timers = @ + 1]

\* a connect() that creates a socket whatever the state of the present one
connectUnguarded(cl) ==
    [cl EXCEPT !.older = Append(@, cl.sock), !.sock = "connecting"]

\* connect(): new WebSocket(WS_URL) returns the socket (the constructor
\* throws for a malformed URL only, and WS_URL is fixed)
connect(cl) ==
    IF cl.sock \in {"open", "connecting"} THEN cl
    ELSE [cl EXCEPT !.older = Append(@, cl.sock), !.sock = "connecting"]

\* the onopen handler of a socket
onopen(cl) == flushQueue([cl EXCEPT !.attempts = 0])

\* the onclose handler of a socket
onclose(cl) == scheduleReconnect(rejectAllPending(cl, DisconnectError))

\* enqueue(message)
enqueue(cl, id) ==
    IF cl.sock = "open" THEN Transmit(cl, id, FALSE)
    ELSE [cl EXCEPT !.queue = Append(@, id)]

\* a timeout callback that rejects and leaves the entry in the pending Map
timeoutKeepsEntry(cl, id) ==
    IF id \in cl.pending
    THEN [cl EXCEPT !.timer[id] = "fired",
                    !.promise[id] = Settled(@, RejectedWith(TimeoutError(cl.type[id]))),
                    !.settles[id] = @ + 1]
    ELSE [cl EXCEPT !.timer[id] = "fired"]

\* the callback sendRequest gives setTimeout
timeoutCallback(cl, id) ==
    IF id \in cl.pending
    THEN [cl EXCEPT !.timer[id] = "fired",
                    !.pending = @ \ {id},
                    !.promise[id] = Settled(@, RejectedWith(TimeoutError(cl.type[id]))),
                    !.settles[id] = @ + 1]
    ELSE [cl EXCEPT !.timer[id] = "fired"]

\* entry.resolve or entry.reject of request id with this outcome
Settle(cl, id, outcome) ==
    [cl EXCEPT !.promise[id] = Settled(@, outcome), !.settles[id] = @ + 1]

\* the outcome of a response: an error response rejects with its message,
\* any other response resolves
OutcomeOf(kind, message) ==
    IF kind = "error" THEN RejectedWith(ServerError(message)) ELSE Resolved

\* a handler that settles the request of every response it is given
handleMessageUnguarded(cl, id, kind, message) ==
    [Settle(cl, id, OutcomeOf(kind, message))
        EXCEPT !.timer[id] = IF id \in cl.pending THEN "cleared" ELSE @,
               !.pending = @ \ {id},
               !.late = IF id \in cl.pending THEN @ ELSE @ \cup {id}]

\* handleMessage for a message with this requestId: an error response with
\* this message (kind "error") or any other response (kind "result")
handleMessage(cl, id, kind, message) ==
    IF id \in cl.pending
    THEN [Settle(cl, id, OutcomeOf(kind, message))
             EXCEPT !.timer[id] = "cleared", !.pending = @ \ {id}]
    ELSE [cl EXCEPT !.late = @ \cup {id}]

(***************************************************************************)
(* A camera of the import page and its vision loop                         *)
(* (frontend/src/lib/import/cameras.js, vision.js)                         *)
(***************************************************************************)
NoStream == 0

\* createCameraDescriptor(device, index, createVisionState)
\*   stream, active, videoEl  the fields of the descriptor (videoEl is TRUE
\*              when the panel's video element is bound)
\*   acquiring  calls of getUserMedia that have not returned
\*   acquired   streams getUserMedia has returned so far
\*   live       the streams acquired whose tracks were not stopped
\*   timers     the streams whose setTimeout callback of start is due
\*   stopped    stop() was called and start() was not called since
CameraInit ==
    [stream |-> NoStream, active |-> FALSE, videoEl |-> FALSE, acquiring |-> 0,
     acquired |-> 0, live |-> {}, timers |-> {}, stopped |-> FALSE]

\* createVisionState(name): enabled, cancelLoop and loopPromise (TRUE when
\* set); loops counts the loop bodies that have not exited, and refused is
\* TRUE once startLoop has returned because loopPromise was set
VisionInit ==
    [enabled |-> FALSE, cancelLoop |-> FALSE, loopPromise |-> FALSE, loops |-> 0,
     refused |-> FALSE]

\* a startLoop that does not look at loopPromise
startLoopUnguarded(cam, vis) ==
    IF ~vis.enabled THEN vis
    ELSE IF ~cam.active \/ ~cam.videoEl THEN vis
    ELSE [vis EXCEPT !.cancelLoop = FALSE, !.loopPromise = TRUE, !.loops = @ + 1]

\* startVisionLoopInternal(cameraObj): the loop body runs up to its first await
startLoop(cam, vis) ==
    IF vis.loopPromise THEN [vis EXCEPT !.refused = TRUE]
    ELSE IF ~vis.enabled THEN vis
    ELSE IF ~cam.active \/ ~cam.videoEl THEN vis
    ELSE [vis EXCEPT !.cancelLoop = FALSE, !.loopPromise = TRUE, !.loops = @ + 1]

\* stopVisionLoopInternal(cameraObj)
stopLoop(vis) == [vis EXCEPT !.cancelLoop = TRUE]

\* ensureVisionLoopInternal(cameraObj, startLoop, stopLoop)
ensureLoop(cam, vis) ==
    IF vis.enabled /\ cam.active /\ cam.videoEl THEN startLoop(cam, vis)
    ELSE IF ~vis.enabled \/ ~cam.active THEN stopLoop(vis)
    ELSE vis

\* the condition of the while loop
LoopGoesOn(cam, vis) == ~vis.cancelLoop /\ vis.enabled /\ cam.active /\ cam.videoEl

(***************************************************************************)
(* The upload manager of the import page (lib/import/uploads)              *)
(***************************************************************************)
Uploads == 1..MaxUploads

NoStamp == 0
NoFile == 0

EvClientError == "client.error"

\* createEntry({scanValue, scancount, images}) with MaxUploads images
\*   status   entry.status
\*   uploads  per upload its status and where its callback of uploadEntry
\*            stands ("idle", "presign", "s3", "analysis", "done")
\*   events   entry.events, each with its event name and timestamp
\*   lastOp   what ran last: "createEntry", "handleStatus" (the call found
\*            the entry), "ignored" (it did not), "uploadEntry" (the call
\*            has finished) or "step" (it has not)
\*   replayed the last handleStatus brought an event the entry held
createEntry ==
    [status |-> "pending",
     uploads |-> [i \in Uploads |-> [status |-> "pending", pc |-> "idle"]],
     events |-> <<>>, lastOp |-> "createEntry", replayed |-> FALSE]

\* a list every event with a timestamp is appended to
addEventAlways(list, event) ==
    IF event.timestamp = NoStamp THEN list ELSE Append(list, event)

\* addEvent(list, event)
addEvent(list, event) ==
    IF event.timestamp = NoStamp THEN list
    ELSE IF \E i \in 1..Len(list) :
                list[i].timestamp = event.timestamp /\ list[i].event = event.event
         THEN list
         ELSE Append(list, event)

\* recordEvent(entry, upload, eventPayload), for entry.events
recordEvent(entry, eventPayload) ==
    [entry EXCEPT !.events = addEvent(@, [event |-> eventPayload.event,
                                          timestamp |-> eventPayload.timestamp])]

\* an updateEntryStatus that leaves a status of success or error as it is
updateEntryStatusKeeping(entry) ==
    IF entry.status \in {"success", "error"} THEN entry
    ELSE IF \E i \in Uploads : entry.uploads[i].status = "error"
    THEN [entry EXCEPT !.status = "error"]
    ELSE IF \A i \in Uploads : entry.uploads[i].status = "success"
    THEN [entry EXCEPT !.status = "success"]
    ELSE IF \E i \in Uploads : entry.uploads[i].status \in {"uploading", "analyzing"}
    THEN [entry EXCEPT !.status = "uploading"]
    ELSE [entry EXCEPT !.status = "pending"]

\* updateEntryStatus(entry)
updateEntryStatus(entry) ==
    IF Uploads = {} THEN [entry EXCEPT !.status = "error"]
    ELSE IF \E i \in Uploads : entry.uploads[i].status = "error"
    THEN [entry EXCEPT !.status = "error"]
    ELSE IF \A i \in Uploads : entry.uploads[i].status = "success"
    THEN [entry EXCEPT !.status = "success"]
    ELSE IF \E i \in Uploads : entry.uploads[i].status \in {"uploading", "analyzing"}
    THEN [entry EXCEPT !.status = "uploading"]
    ELSE [entry EXCEPT !.status = "pending"]

\* the status of an upload after handleStatus found it for this event
UploadStatusAfter(status, event) ==
    IF event = EvCompleted THEN "success"
    ELSE IF event = EvQueued THEN "analyzing"
    ELSE IF IncludesError(event) THEN "error"
    ELSE status

\* handleStatus(status) for a status whose scan is that of the entry;
\* status.fileName is the upload it names, NoFile when it names none
handleStatus(entry, status) ==
    LET recorded == recordEvent(entry, status)
        found == IF status.fileName = NoFile THEN recorded
                 ELSE [recorded EXCEPT !.uploads[status.fileName].status =
                                           UploadStatusAfter(@, status.event)]
        set == IF IncludesError(status.event) THEN [found EXCEPT !.status = "error"]
               ELSE IF status.event = EvCompleted THEN [found EXCEPT !.status = "success"]
               ELSE found
    IN  updateEntryStatus(set)

(***************************************************************************)
(* Initial state                                                           *)
(***************************************************************************)
UnusedReq ==
    [pc |-> "unsent", conn |-> 0, scan |-> 0, key |-> 0,
     text |-> NoText, existing |-> EmptyRecord, record |-> EmptyRecord,
     final |-> "none", failedAt |-> "none", trace |-> <<>>]

Init ==
    /\ operations = <<>>
    /\ now = 1
    /\ lastAct = "other"
    /\ lastPruned = <<>>
    /\ snap = <<>>
    /\ connState = [c \in Conns |-> "new"]
    /\ isAlive = [c \in Conns |-> FALSE]
    /\ unanswered = [c \in Conns |-> 0]
    /\ closedBy = [c \in Conns |-> "none"]
    /\ sent = [c \in Conns |-> <<>>]
    /\ req = [r \in Reqs |-> UnusedReq]
    /\ store = [s \in Scans |-> EmptyRecord]
    /\ writers = [s \in Scans |-> <<>>]
    /\ client = ClientInit
    /\ camera = CameraInit
    /\ vision = VisionInit
    /\ hist = createEntry

(***************************************************************************)
(* Sessions                                                                *)
(***************************************************************************)
\* what a handler run on socket c for request r leaves behind
Commit(w, c) ==
    /\ operations' = w.ops
    /\ lastPruned' = w.gone
    /\ sent' = [sent EXCEPT ![c] = w.out]

\* wss.on('connection'): ready, then the snapshot when it is not empty
Connect(c) ==
    /\ connState[c] = "new"
    /\ \A d \in Conns : d < c => connState[d] # "new"
    /\ connState' = [connState EXCEPT ![c] = "open"]
    /\ isAlive' = [isAlive EXCEPT ![c] = TRUE]
    /\ LET ready == <<[type |-> "ready", requestId |-> 0]>>
           snapshot == Snapshot(operations)
       IN  sent' = [sent EXCEPT ![c] =
                       IF Len(snapshot) > 0
                       THEN ready \o <<[type |-> "snapshot", requestId |-> 0,
                                        operations |-> snapshot]>>
                       ELSE ready]
    /\ lastAct' = "other"
    /\ lastPruned' = <<>>
    /\ UNCHANGED <<browserVars, operations, now, snap, unanswered, closedBy,
                   req, store, writers>>

\* the client closes its socket
ClientClose(c) ==
    /\ connState[c] = "open"
    /\ connState' = [connState EXCEPT ![c] = "closed"]
    /\ closedBy' = [closedBy EXCEPT ![c] = "client"]
    /\ lastAct' = "other"
    /\ lastPruned' = <<>>
    /\ UNCHANGED <<browserVars, operations, now, snap, isAlive, unanswered,
                   sent, req, store, writers>>

\* a pong handler that leaves socket.isAlive as the interval set it
PongKeepsFlag(c) ==
    /\ connState[c] = "open"
    /\ unanswered[c] > 0
    /\ unanswered' = [unanswered EXCEPT ![c] = 0]
    /\ lastAct' = "other"
    /\ lastPruned' = <<>>
    /\ UNCHANGED <<browserVars, operations, now, snap, connState, isAlive, closedBy,
                   sent, req, store, writers>>

\* socket.on('pong'): heartbeat(socket); the client answers an outstanding ping
Pong(c) ==
    /\ connState[c] = "open"
    /\ unanswered[c] > 0
    /\ isAlive' = [isAlive EXCEPT ![c] = TRUE]
    /\ unanswered' = [unanswered EXCEPT ![c] = 0]
    /\ lastAct' = "other"
    /\ lastPruned' = <<>>
    /\ UNCHANGED <<browserVars, operations, now, snap, connState, closedBy,
                   sent, req, store, writers>>

\* socket.on('message') for {type: 'ping'}: a pong message is sent back;
\* socket.isAlive is not touched
PingMessage(c) ==
    /\ connState[c] = "open"
    /\ Cardinality({i \in 1..Len(sent[c]) : sent[c][i].type = "pong"}) < MaxPings
    /\ sent' = [sent EXCEPT ![c] = Append(@, [type |-> "pong", requestId |-> 0])]
    /\ lastAct' = "other"
    /\ lastPruned' = <<>>
    /\ UNCHANGED <<browserVars, operations, now, snap, connState, isAlive, unanswered,
                   closedBy, req, store, writers>>

\* the socket's fate in one pass of the interval: terminated when isAlive is
\* false, probed otherwise
Terminates(c) == connState[c] = "open" /\ isAlive[c] = FALSE
Probes(c) == connState[c] = "open" /\ isAlive[c] = TRUE

\* setInterval callback (ws.js:293-303): the liveness pass, then pruneOperations()
HeartbeatTick ==
    /\ connState' = [c \in Conns |-> IF Terminates(c) THEN "closed" ELSE connState[c]]
    /\ closedBy' = [c \in Conns |-> IF Terminates(c) THEN "liveness" ELSE closedBy[c]]
    /\ isAlive' = [c \in Conns |-> IF Probes(c) THEN FALSE ELSE isAlive[c]]
    /\ unanswered' = [c \in Conns |-> IF Probes(c) THEN unanswered[c] + 1
                                      ELSE unanswered[c]]
    /\ operations' = pruneOperations(operations, now)
    /\ lastPruned' = prunedBy(operations, now)
    /\ lastAct' = "prune"
    /\ UNCHANGED <<browserVars, now, sent, req, store, writers>>

\* the clock of Spec
Tick ==
    /\ now < MaxClock
    /\ now' = now + 1
    /\ lastAct' = "other"
    /\ lastPruned' = <<>>
    /\ UNCHANGED <<browserVars, operations, snap, connState, isAlive, unanswered,
                   closedBy, sent, req, store, writers>>

\* a handler that suspends after the queued status: the rest of its first
\* segment is not sent with it
ReceiveYields(c, scan, key) ==
    /\ connState[c] = "open"
    /\ \E r \in Reqs :
         /\ req[r].pc = "unsent"
         /\ \A q \in Reqs : q < r => req[q].pc # "unsent"
         /\ scan <= r /\ key <= r
         /\ LET w == sendStatuses(World(c, 0), c, r, scan, <<EvQueued>>, key)
            IN  /\ req' = [req EXCEPT ![r] = [UnusedReq EXCEPT !.pc = "fetch",
                                !.conn = c, !.scan = scan, !.key = key,
                                !.trace = w.trace]]
                /\ Commit(w, c)
    /\ lastAct' = "other"
    /\ UNCHANGED <<browserVars, now, snap, connState, isAlive, unanswered, closedBy, store,
                   writers>>

\* socket.on('message') for an upload_complete or analyze_request message with
\* a valid payload (the two cases differ in the message text and in defaults
\* the model does not hold), up to the first await: the queued status, then
\* analyzeAndStore until s3Client.send.  Scans and keys are opaque: the r-th
\* request names one of the first r of them.
Receive(c, scan, key) ==
    /\ connState[c] = "open"
    /\ \E r \in Reqs :
         /\ req[r].pc = "unsent"
         /\ \A q \in Reqs : q < r => req[q].pc # "unsent"
         /\ scan <= r /\ key <= r
         /\ LET w == sendStatuses(World(c, 0), c, r, scan,
                                  <<EvQueued, EvStarted, EvFetchStart>>, key)
            IN  /\ req' = [req EXCEPT ![r] = [UnusedReq EXCEPT !.pc = "fetch",
                                !.conn = c, !.scan = scan, !.key = key,
                                !.trace = w.trace]]
                /\ Commit(w, c)
    /\ lastAct' = "other"
    /\ UNCHANGED <<browserVars, now, snap, connState, isAlive, unanswered, closedBy, store,
                   writers>>

\* the messages that never reach the pipeline: raw is no JSON ("json"), the
\* message has no type ("notype"), its type is not supported ("unknown"), its
\* payload fails the schema of its type ("invalid")
RejectKinds == {"json", "notype", "unknown", "invalid"}

\* the message of the error sendError is given for each kind (the message of
\* the ZodError is named "validation")
RejectMessage(kind) ==
    CASE kind = "json" -> "Invalid JSON payload"
      [] kind = "notype" -> "Message type is required"
      [] kind = "unknown" -> "Unsupported message type"
      [] kind = "invalid" -> "validation"

\* a handler that sends the queued status before it looks at the message
RejectAfterQueued(c, kind, scan) ==
    /\ connState[c] = "open"
    /\ kind # "invalid" => scan = NoScan
    /\ \E r \in Reqs :
         /\ req[r].pc = "unsent"
         /\ \A q \in Reqs : q < r => req[q].pc # "unsent"
         /\ scan <= r
         /\ \E w \in {sendError(sendStatus(World(c, 0), c, r, scan, EvQueued, NoKey),
                                c, r, scan, RejectMessage(kind))} :
                /\ req' = [req EXCEPT ![r] = [UnusedReq EXCEPT !.pc = "done",
                                !.conn = c, !.scan = scan, !.final = "error",
                                !.failedAt = kind, !.trace = w.trace]]
                /\ Commit(w, c)
    /\ lastAct' = "other"
    /\ UNCHANGED <<browserVars, now, snap, connState, isAlive, unanswered, closedBy, store,
                   writers>>

\* socket.on('message') for a message of one of these kinds: one sendError and
\* nothing else.  The requestId is undefined for "json"; scan is payload?.scan
\* of an "invalid" message (NoScan when the payload names none) and is not
\* passed to sendError for the other kinds.
Reject(c, kind, scan) ==
    /\ connState[c] = "open"
    /\ kind # "invalid" => scan = NoScan
    /\ \E r \in Reqs :
         /\ req[r].pc = "unsent"
         /\ \A q \in Reqs : q < r => req[q].pc # "unsent"
         /\ scan <= r
         /\ LET rid == IF kind = "json" THEN NoId ELSE r
                w == sendError(World(c, 0), c, rid, scan, RejectMessage(kind))
            IN  /\ req' = [req EXCEPT ![r] = [UnusedReq EXCEPT !.pc = "done",
                                !.conn = c, !.scan = scan, !.final = "error",
                                !.failedAt = kind, !.trace = w.trace]]
                /\ Commit(w, c)
    /\ lastAct' = "other"
    /\ UNCHANGED <<browserVars, now, snap, connState, isAlive, unanswered, closedBy, store,
                   writers>>

(***************************************************************************)
(* The pipeline: analyzeAndStore resumed at each of its awaits             *)
(***************************************************************************)
\* the invocation continues: events are emitted and it suspends at pc
Proceed(r, events, pc) ==
    LET c == req[r].conn
    IN  \E w \in {sendStatuses(World(c, r), c, r, req[r].scan, events, req[r].key)} :
            /\ req' = [req EXCEPT ![r].pc = pc, ![r].trace = w.trace]
            /\ Commit(w, c)

\* a stage that emits its events and goes on as if nothing had failed
FailSwallowed(r, events, stage) ==
    LET c == req[r].conn
    IN  \E w \in {sendStatuses(World(c, r), c, r, req[r].scan, events, req[r].key)} :
            /\ req' = [req EXCEPT ![r].pc = "ai", ![r].trace = w.trace]
            /\ Commit(w, c)

\* the invocation throws in stage after emitting events: the handler's catch
\* block sends the error status and the error response (the message of the
\* error is named after the stage that threw it)
Fail(r, events, stage) ==
    LET c == req[r].conn
    IN  \E w \in {FailWith(World(c, r), c, r, req[r].scan, events, req[r].key, stage)} :
            /\ req' = [req EXCEPT ![r].pc = "done", ![r].final = "error",
                                  ![r].failedAt = stage, ![r].trace = w.trace]
            /\ Commit(w, c)

\* await s3Client.send(GetObjectCommand) returns an object with a body
\* ("ok"), an object without a body ("nobody"), or throws ("throw")
FetchReturn(r, outcome) ==
    /\ req[r].pc = "fetch"
    /\ CASE outcome = "ok" -> Proceed(r, <<EvFetchSuccess>>, "buffer")
         [] outcome = "nobody" -> Fail(r, <<EvFetchSuccess, EvFetchError>>, "body")
         [] outcome = "throw" -> Fail(r, <<EvFetchError>>, "fetch")
    /\ lastAct' = "other"
    /\ UNCHANGED <<browserVars, now, snap, connState, isAlive, unanswered, closedBy,
                   store, writers>>

\* await streamToBuffer(object.Body) resolves or rejects (stream error)
BufferReturn(r, ok) ==
    /\ req[r].pc = "buffer"
    /\ IF ok THEN Proceed(r, <<EvAiRequest>>, "ai") ELSE Fail(r, <<>>, "buffer")
    /\ lastAct' = "other"
    /\ UNCHANGED <<browserVars, now, snap, connState, isAlive, unanswered, closedBy,
                   store, writers>>

\* an inference stage that reports its failure and goes on to store the image
\* without text
AiReturnTolerant(r, ok, text) ==
    /\ req[r].pc = "ai"
    /\ text \in {NoText, req[r].key}
    /\ IF ok
       THEN /\ Proceed(r, <<EvAiSuccess>>, "dbread")
            /\ req'[r].text = text
       ELSE /\ text = NoText
            /\ Proceed(r, <<EvAiError>>, "dbread")
    /\ lastAct' = "other"
    /\ UNCHANGED <<browserVars, now, snap, connState, isAlive, unanswered, closedBy,
                   store, writers>>

\* an inference stage that throws when the response cannot be parsed
AiReturnStrict(r, ok, text) ==
    /\ req[r].pc = "ai"
    /\ text \in {NoText, req[r].key}
    /\ IF ok /\ text # NoText
       THEN /\ Proceed(r, <<EvAiSuccess>>, "dbread")
            /\ req'[r].text = text
       ELSE Fail(r, <<EvAiError>>, "ai")
    /\ lastAct' = "other"
    /\ UNCHANGED <<browserVars, now, snap, connState, isAlive, unanswered, closedBy,
                   store, writers>>

\* await openai.responses.create: throws, or returns a response whose parsed
\* detected_text is <<text>> (empty when text is NoText); the invocation goes
\* on to the GetCommand.  The text read off an image is named after its key.
AiReturn(r, ok, text) ==
    /\ req[r].pc = "ai"
    /\ text \in {NoText, req[r].key}
    /\ IF ok
       THEN LET c == req[r].conn
            IN  \E w \in {sendStatus(World(c, r), c, r, req[r].scan, EvAiSuccess,
                                     req[r].key)} :
                    /\ req' = [req EXCEPT ![r].pc = "dbread", ![r].text = text,
                                          ![r].trace = w.trace]
                    /\ Commit(w, c)
       ELSE /\ text = NoText
            /\ Fail(r, <<EvAiError>>, "ai")
    /\ lastAct' = "other"
    /\ UNCHANGED <<browserVars, now, snap, connState, isAlive, unanswered, closedBy,
                   store, writers>>

\* await dynamo.send(GetCommand) returns the stored item or throws; on
\* success the record is merged and the PutCommand is issued
DbReadReturn(r, ok) ==
    /\ req[r].pc = "dbread"
    /\ IF ok
       THEN LET c == req[r].conn
                existing == store[req[r].scan]
                record == MergeRecord(existing, req[r].key, req[r].text, r, now)
            IN  \E w \in {sendStatus(World(c, r), c, r, req[r].scan, EvDbWrite,
                                     req[r].key)} :
                    /\ req' = [req EXCEPT ![r].pc = "dbwrite", ![r].existing = existing,
                                          ![r].record = record, ![r].trace = w.trace]
                    /\ Commit(w, c)
       ELSE Fail(r, <<>>, "dbread")
    /\ lastAct' = "other"
    /\ UNCHANGED <<browserVars, now, snap, connState, isAlive, unanswered, closedBy,
                   store, writers>>

\* await dynamo.send(PutCommand) succeeds (the item is stored) or throws; on
\* success analyzeAndStore returns and the handler, resumed by the microtask
\* that follows, sends the completed status and the analysis_result
DbWriteReturn(r, ok) ==
    /\ req[r].pc = "dbwrite"
    /\ IF ok
       THEN LET c == req[r].conn
            IN  \E w \in {sendJSON(sendStatuses(World(c, r), c, r, req[r].scan,
                                      <<EvDbSuccess, EvCompleted, EvCompleted>>,
                                      req[r].key),
                                   c, [type |-> "analysis_result", requestId |-> r])} :
                    /\ req' = [req EXCEPT ![r].pc = "done", ![r].final = "result",
                                          ![r].trace = w.trace]
                    /\ Commit(w, c)
                    /\ store' = PutItem(store, req[r].scan, req[r].record)
                    /\ writers' = [writers EXCEPT ![req[r].scan] = Append(@, r)]
       ELSE /\ Fail(r, <<EvDbError>>, "dbwrite")
            /\ UNCHANGED <<store, writers>>
    /\ lastAct' = "other"
    /\ UNCHANGED <<browserVars, now, snap, connState, isAlive, unanswered, closedBy>>

\* the session manager and the pipeline on one socket with every outcome of
\* every external call; the clock stands still and each image yields its text
Next ==
    \/ Connect(1)
    \/ ClientClose(1)
    \/ \E scan \in Scans : Receive(1, scan, 1)
    \/ \E r \in Reqs, outcome \in {"ok", "nobody", "throw"} : FetchReturn(r, outcome)
    \/ \E r \in Reqs, ok \in BOOLEAN : BufferReturn(r, ok)
    \/ \E r \in Reqs : AiReturn(r, TRUE, req[r].key)
    \/ \E r \in Reqs : AiReturn(r, FALSE, NoText)
    \/ \E r \in Reqs, ok \in BOOLEAN : DbReadReturn(r, ok)
    \/ \E r \in Reqs, ok \in BOOLEAN : DbWriteReturn(r, ok)

Spec == Init /\ [][Next]_vars

\* the external call request r waits for returns or throws
CallReturns(r) ==
    \/ \E outcome \in {"ok", "nobody", "throw"} : FetchReturn(r, outcome)
    \/ \E ok \in BOOLEAN : BufferReturn(r, ok)
    \/ AiReturn(r, TRUE, req[r].key)
    \/ AiReturn(r, FALSE, NoText)
    \/ \E ok \in BOOLEAN : DbReadReturn(r, ok)
    \/ \E ok \in BOOLEAN : DbWriteReturn(r, ok)

\* invocations for one item on one socket the client may close, every
\* external call returning or throwing
FairNext ==
    \/ Connect(1)
    \/ ClientClose(1)
    \/ Receive(1, 1, 1)
    \/ \E r \in Reqs : CallReturns(r)

\* no external call stays pending for ever: the blob store, the inference
\* service and the record store answer every call
FairSpec == Init /\ [][FairNext]_vars /\ \A r \in Reqs : WF_vars(CallReturns(r))

\* invocations for one item on one socket whose blob fetch and inference
\* succeed, with the clock running: the read-merge-write cycles of the store
StoreNext ==
    \/ Connect(1)
    \/ Tick
    \/ \E key \in Keys : Receive(1, 1, key)
    \/ \E r \in Reqs : FetchReturn(r, "ok")
    \/ \E r \in Reqs : BufferReturn(r, TRUE)
    \/ \E r \in Reqs : AiReturn(r, TRUE, req[r].key)
    \/ \E r \in Reqs : DbReadReturn(r, TRUE)
    \/ \E r \in Reqs, ok \in BOOLEAN : DbWriteReturn(r, ok)

StoreSpec == Init /\ [][StoreNext]_vars

\* invocations for one item whose inference response is parsed or cannot be
\* parsed (parsedAnalysis is null), the write to the record store succeeding
\* or not
ParseNext ==
    \/ Connect(1)
    \/ \E key \in Keys : Receive(1, 1, key)
    \/ \E r \in Reqs : FetchReturn(r, "ok")
    \/ \E r \in Reqs : BufferReturn(r, TRUE)
    \/ \E r \in Reqs : AiReturn(r, TRUE, req[r].key)
    \/ \E r \in Reqs : AiReturn(r, TRUE, NoText)
    \/ \E r \in Reqs : DbReadReturn(r, TRUE)
    \/ \E r \in Reqs, ok \in BOOLEAN : DbWriteReturn(r, ok)

ParseSpec == Init /\ [][ParseNext]_vars

\* the message handler of one socket with the messages it rejects, beside
\* invocations whose blob fetch may fail
ProtocolNext ==
    \/ Connect(1)
    \/ ClientClose(1)
    \/ \E kind \in RejectKinds, scan \in {NoScan} \cup Scans : Reject(1, kind, scan)
    \/ \E scan \in Scans : Receive(1, scan, 1)
    \/ \E r \in Reqs, outcome \in {"ok", "throw"} : FetchReturn(r, outcome)
    \/ \E r \in Reqs : BufferReturn(r, TRUE)
    \/ \E r \in Reqs : AiReturn(r, TRUE, req[r].key)
    \/ \E r \in Reqs : DbReadReturn(r, TRUE)
    \/ \E r \in Reqs : DbWriteReturn(r, TRUE)

ProtocolSpec == Init /\ [][ProtocolNext]_vars

\* the liveness task alone with the sockets it probes
LivenessNext ==
    \/ \E c \in Conns : Connect(c)
    \/ \E c \in Conns : ClientClose(c)
    \/ \E c \in Conns : Pong(c)
    \/ \E c \in Conns : PingMessage(c)
    \/ HeartbeatTick /\ UNCHANGED snap
    \/ Tick

LivenessSpec == Init /\ [][LivenessNext]_vars

(***************************************************************************)
(* The ledger driven by injected events                                    *)
(***************************************************************************)
\* a burst is under way
Busy == QuietLen < Len(operations) /\ Len(operations) < 2 * MAX_OPERATIONS

\* the scans the Map holds
Held == {operations[i].scan : i \in 1..Len(operations)}

\* the scans an injected event may name: the head of the Map, or the scan
\* after the greatest one the Map holds
LedgerChoices ==
    (IF operations = <<>> \/ Len(operations) > QuietLen THEN {}
     ELSE {operations[1].scan})
    \cup ({IF operations = <<>> THEN 1
           ELSE 1 + CHOOSE scan \in Held : \A other \in Held : other <= scan}
          \cap LedgerScans)

\* recordOperationEvent(scan, payload) called with a status event for scan
LedgerRecord(scan) ==
    /\ \A i \in 1..Len(operations) :
          operations[i].scan = scan => Len(operations[i].events) < MaxLedgerEvents
    /\ operations' = recordOperationEvent(operations, scan,
                          StatusPayload(0, scan, EvQueued, NoKey), now)
    /\ lastPruned' = prunedBy(operations, now)
    /\ lastAct' = "other"
    /\ snap' = <<>>
    /\ UNCHANGED <<browserVars, now, connState, isAlive, unanswered, closedBy, sent, req,
                   store, writers>>

\* the clock of LedgerSpec: a millisecond or the time-to-live passes
LedgerAdvance(d) ==
    /\ now + d <= MaxLedgerNow
    /\ (now + d) % OPERATION_TTL_MS \in 1..MaxSlack
    /\ ~Busy
    /\ now' = now + d
    /\ lastPruned' = <<>>
    /\ lastAct' = "other"
    /\ snap' = <<>>
    /\ UNCHANGED <<browserVars, operations, connState, isAlive, unanswered, closedBy, sent,
                   req, store, writers>>

\* the snapshot a connecting client is sent (ws.js:99-101)
LedgerSnapshot ==
    /\ lastAct # "snapshot"
    /\ ~Busy
    /\ snap' = Snapshot(operations)
    /\ lastPruned' = <<>>
    /\ lastAct' = "snapshot"
    /\ UNCHANGED <<browserVars, operations, now, connState, isAlive, unanswered, closedBy,
                   sent, req, store, writers>>

\* the interval's pruneOperations() (no socket is open in LedgerSpec)
LedgerPrune ==
    /\ ~Busy
    /\ HeartbeatTick
    /\ snap' = <<>>

LedgerNext ==
    \/ \E scan \in LedgerChoices : LedgerRecord(scan)
    \/ \E d \in {1, OPERATION_TTL_MS} : LedgerAdvance(d)
    \/ LedgerSnapshot
    \/ LedgerPrune

LedgerSpec == Init /\ [][LedgerNext]_vars

\* the ledger driven by injected events until a client connects
ConnectNext ==
    \/ connState[1] = "new" /\ LedgerNext
    \/ ~Busy /\ Connect(1)

ConnectSpec == Init /\ [][ConnectNext]_vars

\* the stage events RecordSpec injects: one of no consequence for the status,
\* a stage failure, the handler's error and the final success
RecordEvents == {EvAiRequest, EvAiError, EvError, EvCompleted}

\* recordOperationEvent(scan, payload) called with any status event
RecordEvent(scan, event, key) ==
    /\ \A i \in 1..Len(operations) :
          operations[i].scan = scan => Len(operations[i].events) < MaxRecordEvents
    /\ operations' = recordOperationEvent(operations, scan,
                          StatusPayload(0, scan, event, key), now)
    /\ lastPruned' = prunedBy(operations, now)
    /\ lastAct' = "record"
    /\ snap' = <<>>
    /\ UNCHANGED <<browserVars, now, connState, isAlive, unanswered, closedBy, sent, req,
                   store, writers>>

\* the ledger entry of one scan under events of every kind, with the clock
RecordNext ==
    \/ \E event \in RecordEvents, key \in Keys : RecordEvent(1, event, key)
    \/ \E d \in {1, OPERATION_TTL_MS} : LedgerAdvance(d)

RecordSpec == Init /\ [][RecordNext]_vars

(***************************************************************************)
(* Views used by the properties                                            *)
(***************************************************************************)
IsPrefix(a, b) == Len(a) <= Len(b) /\ SubSeq(b, 1, Len(a)) = a
IsSuffix(a, b) == Len(a) <= Len(b) /\ SubSeq(b, Len(b) - Len(a) + 1, Len(b)) = a

EventNames(msgs) == [i \in 1..Len(msgs) |-> msgs[i].event]

\* the stage names of request r as its socket received them
OnSocket(r) ==
    LET IsMine(m) == m.type = "status" /\ m.requestId = r
    IN  IF req[r].conn = 0 THEN <<>>
        ELSE EventNames(SelectSeq(sent[req[r].conn], IsMine))

\* the stage names of request r as the ledger entry of its scan holds them
InLedger(r) ==
    LET i == IndexOf(operations, req[r].scan)
        IsMine(m) == m.requestId = r
    IN  IF i = 0 THEN <<>>
        ELSE EventNames(SelectSeq(operations[i].events, IsMine))

Started(r) == req[r].pc # "unsent"
Done(r) == req[r].pc = "done"
InFlight(r) == Started(r) /\ ~Done(r)

Count(seq, set) == Cardinality({i \in 1..Len(seq) : seq[i] \in set})

StageFailures == {EvFetchError, EvAiError, EvDbError}
TerminalEvents == StageFailures \cup {EvError, EvCompleted}

(***************************************************************************)
(* C1  requests of one connection                                          *)
(***************************************************************************)
\* C1 as claimed: on one connection a request is handled only after the
\* final response of every earlier request of that connection.
C1_Serialized ==
    \A r1, r2 \in Reqs :
        (r1 < r2 /\ Started(r2) /\ req[r1].conn = req[r2].conn) => Done(r1)

\* the messages at positions i.. of the socket are the status events names
\* of request r, in this order
FollowedBy(msgs, i, r, names) ==
    /\ i + Len(names) - 1 <= Len(msgs)
    /\ \A k \in 1..Len(names) :
          /\ msgs[i + k - 1].type = "status"
          /\ msgs[i + k - 1].requestId = r
          /\ msgs[i + k - 1].event = names[k]

\* C1 amended: requests of one connection are started in arrival order and a
\* handler is not interleaved before its first await: the queued, started and
\* fetch.start events of a request are contiguous on its socket and no event
\* of a later request precedes them.
C1_Segments ==
    \A c \in Conns : \A i \in 1..Len(sent[c]) :
        LET m == sent[c][i]
        IN  (m.type = "status" /\ m.event = EvQueued) =>
                /\ FollowedBy(sent[c], i, m.requestId,
                              <<EvQueued, EvStarted, EvFetchStart>>)
                /\ \A j \in 1..(i - 1) : sent[c][j].requestId <= m.requestId

\* two requests of one connection are in flight together and the later one
\* has gone further than the earlier one
C1_Overlap ==
    \E r1, r2 \in Reqs :
        /\ r1 < r2 /\ req[r1].conn = req[r2].conn
        /\ req[r1].pc = "fetch" /\ req[r2].pc = "dbwrite"
        /\ Len(OnSocket(r2)) > Len(OnSocket(r1))
        /\ Len(OnSocket(r1)) = 3

(***************************************************************************)
(* C2  terminal events of an invocation                                    *)
(***************************************************************************)
\* C2 as claimed: what a subscriber observes of one invocation holds at most
\* one terminal stage event, and nothing follows it.
C2_OneTerminal ==
    \A r \in Reqs :
        LET seen == OnSocket(r)
        IN  /\ Count(seen, TerminalEvents) <= 1
            /\ \A i \in 1..Len(seen) : seen[i] \in TerminalEvents => i = Len(seen)

\* the terminal events come last: once one is emitted only terminal events follow
TerminalsLast(seq) ==
    \A i, j \in 1..Len(seq) : (i < j /\ seq[i] \in TerminalEvents) => seq[j] \in TerminalEvents

\* C2 amended: the socket observes a prefix of the emitted sequence and the
\* ledger a suffix of it; terminal events come last; a successful invocation
\* ends with two analysis.completed events and no failure event, a failed one
\* with exactly one generic error event, preceded by at most one failure
\* event of a stage and by no completed event.
C2_Terminals ==
    \A r \in Reqs :
        LET trace == req[r].trace
        IN  /\ IsPrefix(OnSocket(r), trace)
            /\ IsSuffix(InLedger(r), trace)
            /\ TerminalsLast(trace)
            /\ Count(trace, TerminalEvents) > 0 => Done(r)
            /\ (Done(r) /\ req[r].final = "result") =>
                  /\ Count(trace, {EvCompleted}) = 2
                  /\ Count(trace, StageFailures \cup {EvError}) = 0
                  /\ trace[Len(trace)] = EvCompleted
            /\ (Done(r) /\ req[r].final = "error") =>
                  /\ Count(trace, {EvError}) = 1
                  /\ trace[Len(trace)] = EvError
                  /\ Count(trace, StageFailures) <= 1
                  /\ Count(trace, {EvCompleted}) = 0

\* an invocation has succeeded and its socket has seen both completed events;
\* another has failed in a stage and its socket has seen both failure events
C2_BothEndings ==
    \E r1, r2 \in Reqs :
        /\ Done(r1) /\ req[r1].final = "result"
        /\ OnSocket(r1) = req[r1].trace
        /\ Count(OnSocket(r1), {EvCompleted}) = 2
        /\ Done(r2) /\ req[r2].final = "error"
        /\ Count(OnSocket(r2), StageFailures \cup {EvError}) = 2

(***************************************************************************)
(* C3  the stages of an invocation                                         *)
(***************************************************************************)
\* the stage sequences of the claimed state machine, in the event names of
\* the source ("analysis.merge" stands for the merge stage)
ClaimedPaths ==
    {<<EvQueued, EvFetchStart, EvFetchError>>,
     <<EvQueued, EvFetchStart, EvFetchSuccess, EvAiRequest, EvAiError>>,
     <<EvQueued, EvFetchStart, EvFetchSuccess, EvAiRequest, EvAiSuccess,
       "analysis.merge", EvDbWrite, EvDbError>>,
     <<EvQueued, EvFetchStart, EvFetchSuccess, EvAiRequest, EvAiSuccess,
       "analysis.merge", EvDbWrite, EvCompleted>>}

\* C3 as claimed: the events of an invocation follow queued, fetch.start,
\* fetch.ok|fetch.error, ai.request, ai.ok|ai.error, merge, db.write,
\* completed|db.error, one event per stage, and stop at a failure stage.
C3_ClaimedMachine ==
    \A r \in Reqs : \E path \in ClaimedPaths : IsPrefix(req[r].trace, path)

\* the events of an invocation whose external calls have all succeeded
HappyPath ==
    <<EvQueued, EvStarted, EvFetchStart, EvFetchSuccess, EvAiRequest,
      EvAiSuccess, EvDbWrite>>

\* the events emitted when the invocation suspends at stage
Upto(stage) ==
    SubSeq(HappyPath, 1, CASE stage = "fetch" -> 3
                           [] stage = "buffer" -> 4
                           [] stage = "ai" -> 5
                           [] stage = "dbread" -> 6
                           [] stage = "dbwrite" -> 7)

\* the stage sequences of a finished invocation
ActualPaths ==
    {Upto("fetch") \o <<EvFetchError, EvError>>,
     Upto("buffer") \o <<EvFetchError, EvError>>,
     Upto("buffer") \o <<EvError>>,
     Upto("ai") \o <<EvAiError, EvError>>,
     Upto("dbread") \o <<EvError>>,
     Upto("dbwrite") \o <<EvDbError, EvError>>,
     Upto("dbwrite") \o <<EvDbSuccess, EvCompleted, EvCompleted>>}

\* C3 amended: the events of an invocation follow queued, started,
\* fetch.start, fetch.success|fetch.error, ai.request, ai.success|ai.error,
\* db.write, db.success|db.error, completed, completed: merge emits no event,
\* a missing body emits fetch.error after fetch.success, a failed body read
\* and a failed record-store read emit no stage event, and every failure is
\* followed by the generic error event and nothing else.
C3_Stages ==
    \A r \in Reqs :
        /\ \E path \in ActualPaths : IsPrefix(req[r].trace, path)
        /\ Done(r) => req[r].trace \in ActualPaths
        /\ InFlight(r) => req[r].trace = Upto(req[r].pc)

\* one invocation has gone through every stage and another has failed in
\* its AI stage
C3_FullRun ==
    \E r1, r2 \in Reqs :
        /\ Done(r1)
        /\ req[r1].trace = Upto("dbwrite") \o <<EvDbSuccess, EvCompleted, EvCompleted>>
        /\ Done(r2)
        /\ req[r2].trace = Upto("ai") \o <<EvAiError, EvError>>

(***************************************************************************)
(* C4  concurrent invocations for one item                                 *)
(***************************************************************************)
Last(seq) == seq[Len(seq)]

\* C4: the invocations for one item read and write the store without
\* coordination and the last writer wins: the stored item is the record the
\* last successful writer built from the item it had read, whatever the
\* other invocations wrote between its read and its write.
C4_LastWriterWins ==
    \A s \in Scans :
        IF writers[s] = <<>> THEN store[s] = EmptyRecord
        ELSE LET r == Last(writers[s])
             IN  /\ store[s] = req[r].record
                 /\ store[s].media = AddMedia(req[r].existing.media, req[r].key)
                 /\ store[s].raw_text =
                        UnionSeq(req[r].existing.raw_text, DetectedText(req[r].text))

\* lost update: two invocations for one item with different keys have both
\* answered with a result and the stored record holds neither the media
\* entry nor the text of the first writer
C4_LostUpdate ==
    \E s \in Scans, r1, r2 \in Reqs :
        /\ writers[s] = <<r1, r2>>
        /\ req[r1].final = "result" /\ req[r2].final = "result"
        /\ req[r1].key # req[r2].key
        /\ \A i \in 1..Len(store[s].media) : store[s].media[i] # req[r1].key
        /\ \A i \in 1..Len(store[s].raw_text) : store[s].raw_text[i] # req[r1].text
        /\ req[r1].text # NoText

(***************************************************************************)
(* C5  meta.created_at                                                     *)
(***************************************************************************)
\* C5 as claimed: the created_at of a stored record is the one its first
\* successful write stored, whatever was written afterwards, and its
\* updated_at is the time of the merge of the write that stored it.
C5_CreatedAtSetOnce ==
    \A s \in Scans :
        writers[s] # <<>> =>
            /\ store[s].created_at = req[writers[s][1]].record.created_at
            /\ store[s].updated_at = req[Last(writers[s])].record.updated_at

(***************************************************************************)
(* C6  the size of the ledger after pruneOperations                        *)
(***************************************************************************)
Expired(entry) == entry.updatedAt < now - OPERATION_TTL_MS

\* C6 as claimed: after the interval's pruneOperations() the ledger holds no
\* expired entry and at most MAX_OPERATIONS entries.
C6_UnderCeiling ==
    lastAct = "prune" =>
        /\ \A i \in 1..Len(operations) : ~Expired(operations[i])
        /\ Len(operations) <= MAX_OPERATIONS

\* C6 amended: after the interval's pruneOperations() the ledger holds no
\* expired entry and at most 2 * MAX_OPERATIONS entries.
C6_UnderTwiceCeiling ==
    lastAct = "prune" =>
        /\ \A i \in 1..Len(operations) : ~Expired(operations[i])
        /\ Len(operations) <= 2 * MAX_OPERATIONS

\* the interval's pruneOperations() has deleted an entry for the size of the
\* table and has stopped at 2 * MAX_OPERATIONS entries
C6_PrunedBySize ==
    /\ lastAct = "prune"
    /\ \E i \in 1..Len(lastPruned) : lastPruned[i].bySize
    /\ Len(operations) = 2 * MAX_OPERATIONS

(***************************************************************************)
(* C7  expired entries and the snapshot                                    *)
(***************************************************************************)
\* C7 as claimed: the snapshot sent to a connecting client holds no entry
\* whose last update is older than the time-to-live.
C7_SnapshotFresh ==
    lastAct = "snapshot" => \A i \in 1..Len(snap) : ~Expired(snap[i])

(***************************************************************************)
(* C8  the order of size-driven eviction                                   *)
(***************************************************************************)
\* C8 as claimed: when pruneOperations() deletes an entry for the size of the
\* table, every entry that remains was updated at least as recently as it.
C8_OldestFirst ==
    \A i \in 1..Len(lastPruned) :
        lastPruned[i].bySize =>
            \A j \in 1..Len(operations) :
                operations[j].updatedAt >= lastPruned[i].updatedAt

(***************************************************************************)
(* C9  the liveness pass                                                   *)
(***************************************************************************)
\* C9 as claimed: a socket closed by the liveness pass has left two
\* consecutive probes unanswered.
C9_TwoProbes ==
    \A c \in Conns : closedBy[c] = "liveness" => unanswered[c] >= 2

\* C9 amended: a socket is closed by the liveness pass at the first tick at
\* which the probe of the previous tick is unanswered: it has left exactly
\* one probe unanswered, no socket ever has two unanswered probes, and a
\* socket whose probes are all answered is not closed by the pass.
C9_OneProbe ==
    \A c \in Conns :
        /\ unanswered[c] <= 1
        /\ closedBy[c] = "liveness" => unanswered[c] = 1
        /\ (connState[c] = "open" /\ unanswered[c] = 0) => isAlive[c]

\* one socket has been closed by the liveness pass with one unanswered probe
\* while another, which answered its probe, is open
C9_ClosedAfterOne ==
    \E c, d \in Conns :
        /\ closedBy[c] = "liveness" /\ unanswered[c] = 1
        /\ connState[d] = "open" /\ unanswered[d] = 0 /\ isAlive[d]

(***************************************************************************)
(* C10  failure events of the stages                                       *)
(***************************************************************************)
\* C10 as claimed: an invocation that fails in the blob fetch, on a missing
\* body, in the AI call, in the record-store read or in the record-store
\* write has emitted the failure event of its stage before its caller sees
\* the error, and the caller does see it.
C10_StageFailureEmitted ==
    \A r \in Reqs :
        req[r].failedAt \in {"fetch", "body", "ai", "dbread", "dbwrite"} =>
            /\ req[r].final = "error"
            /\ \E i \in 1..Len(req[r].trace) :
                  /\ req[r].trace[i] \in StageFailures
                  /\ \E j \in (i + 1)..Len(req[r].trace) : req[r].trace[j] = EvError

(***************************************************************************)
(* C11  what a failed request leaves on its connection                     *)
(***************************************************************************)
\* the message of the error of a failed request
ErrorMessageOf(r) ==
    IF req[r].failedAt \in RejectKinds THEN RejectMessage(req[r].failedAt)
    ELSE req[r].failedAt

\* positions i, i + 1 of the socket hold the error status and the error
\* response of request id rid, both with this message
ErrorPairAt(c, i, rid, message) ==
    /\ i + 1 <= Len(sent[c])
    /\ sent[c][i].type = "status" /\ sent[c][i].event = EvError
    /\ sent[c][i].requestId = rid /\ sent[c][i].message = message
    /\ sent[c][i + 1] = [type |-> "error", requestId |-> rid, message |-> message]

\* C11: a request that fails, by a rejected payload, a missing or unsupported
\* type, or an exception of the pipeline, leaves on its connection the error
\* status carrying the message of the error followed by the error response
\* carrying the request id and the same message; the failure does not close
\* the connection (unless the client closed it, it is open), and the
\* connection accepts the next request.
C11_FailureAnswered ==
    \A r \in Reqs :
        (Done(r) /\ req[r].final = "error" /\ req[r].failedAt # "json") =>
            LET c == req[r].conn
            IN  /\ closedBy[c] # "liveness"
                /\ closedBy[c] = "none" =>
                      /\ connState[c] = "open"
                      /\ \E i \in 1..Len(sent[c]) :
                            ErrorPairAt(c, i, r, ErrorMessageOf(r))
                      /\ (\E q \in Reqs : req[q].pc = "unsent") =>
                            ENABLED Receive(c, 1, 1)

\* a request rejected for its payload has been answered with both messages
\* and the next request of the same connection has been answered with a result
C11_NextRequestServed ==
    \E r1, r2 \in Reqs :
        /\ r1 < r2 /\ req[r1].conn = req[r2].conn
        /\ req[r1].failedAt = "invalid" /\ req[r1].scan # NoScan
        /\ \E i \in 1..Len(sent[req[r1].conn]) :
              ErrorPairAt(req[r1].conn, i, r1, "validation")
        /\ req[r2].final = "result"
        /\ connState[req[r2].conn] = "open"

(***************************************************************************)
(* C12  every invocation ends and is answered once                         *)
(***************************************************************************)
\* the final responses (analysis_result or error) request r was sent
FinalResponses(r) ==
    IF req[r].conn = 0 THEN <<>>
    ELSE LET IsFinal(m) == m.requestId = r /\ m.type \in {"analysis_result", "error"}
         IN  SelectSeq(sent[req[r].conn], IsFinal)

\* request r is over and, unless the client closed the socket, it was sent
\* exactly one final response, the one of its outcome
Answered(r) ==
    /\ Done(r)
    /\ closedBy[req[r].conn] = "none" =>
          /\ Len(FinalResponses(r)) = 1
          /\ FinalResponses(r)[1].type =
                IF req[r].final = "result" THEN "analysis_result" ELSE "error"

\* C12: no final response is sent before the invocation is over and never a
\* second one; when every external call returns or throws, every invocation
\* that has started reaches its end, and its caller, if its connection is
\* still open, has then received exactly one final response: the result or
\* the error.
C12_RunsToAnEnd ==
    /\ [](\A r \in Reqs : /\ Len(FinalResponses(r)) <= 1
                          /\ Len(FinalResponses(r)) = 1 => Done(r)
                          /\ Done(r) => Answered(r))
    /\ \A r \in Reqs : Started(r) ~> Answered(r)

\* two invocations of one open connection are over, one answered with a
\* result after its record-store write, the other with an error after its
\* record-store write failed
C12_BothAnswered ==
    \E r1, r2 \in Reqs :
        /\ Answered(r1) /\ Answered(r2)
        /\ connState[req[r1].conn] = "open" /\ req[r1].conn = req[r2].conn
        /\ req[r1].final = "result" /\ FinalResponses(r1)[1].type = "analysis_result"
        /\ req[r2].failedAt = "dbwrite" /\ FinalResponses(r2)[1].type = "error"

(***************************************************************************)
(* C13  a failed fetch or inference leaves the record store alone          *)
(***************************************************************************)
\* request r has reported a failed blob fetch or a failed inference
FailedEarly(r) ==
    \E i \in 1..Len(req[r].trace) : req[r].trace[i] \in {EvFetchError, EvAiError}

\* C13: an invocation whose blob fetch failed (the transport threw or the
\* object had no body) or whose inference failed takes no step that changes
\* the record store, has merged no record (the GetCommand was never answered
\* to it) and is no writer of any identifier; the step that fails leaves the
\* stored record of every identifier as it was.
C13_EarlyFailureKeepsStore ==
    [][\A r \in Reqs :
          FailedEarly(r)' =>
             /\ req'[r] # req[r] => store' = store /\ writers' = writers
             /\ req'[r].pc = "done" /\ req'[r].final = "error"
             /\ req'[r].failedAt \in {"fetch", "body", "ai"}
             /\ req'[r].record = EmptyRecord
             /\ \A s \in Scans : \A i \in 1..Len(writers'[s]) : writers'[s][i] # r]_vars

\* an invocation failed in its inference after another invocation had stored
\* a record for the same identifier, and that record is still the stored one
C13_FailedBesideStored ==
    \E r1, r2 \in Reqs :
        /\ req[r1].failedAt = "ai" /\ FailedEarly(r1)
        /\ req[r2].final = "result" /\ req[r2].scan = req[r1].scan
        /\ writers[req[r1].scan] = <<r2>>
        /\ store[req[r1].scan] = req[r2].record
        /\ store[req[r1].scan].present

(***************************************************************************)
(* C14  an invocation outlives its connection                              *)
(***************************************************************************)
\* the socket request r came in on has closed
ClosedUnder(r) == req[r].conn # 0 /\ connState[req[r].conn] = "closed"

\* the status of the ledger entry of a scan ("none" without an entry)
StatusOf(scan) ==
    LET i == IndexOf(operations, scan)
    IN  IF i = 0 THEN "none" ELSE operations[i].status

\* the scans of the entries a snapshot taken now would hold
Replayed == {Snapshot(operations)[i].scan : i \in 1..Len(Snapshot(operations))}

\* C14: an invocation whose connection has closed goes on: the events it
\* emits after the close are appended, in order, to the ledger entry of its
\* scan while nothing is written to the socket; when every external call
\* returns or throws it reaches its end, and from then on the entry holds all
\* of its events, has status completed or error and is part of a snapshot.
C14_OutlivesConnection ==
    /\ [][\A r \in Reqs :
             ClosedUnder(r) /\ req'[r].trace # req[r].trace =>
                /\ IsPrefix(req[r].trace, req'[r].trace)
                /\ InLedger(r)' = InLedger(r) \o
                      SubSeq(req'[r].trace, Len(req[r].trace) + 1, Len(req'[r].trace))
                /\ sent' = sent]_vars
    /\ [](\A r \in Reqs :
             Done(r) /\ ClosedUnder(r) =>
                /\ InLedger(r) = req[r].trace
                /\ StatusOf(req[r].scan) \in {"completed", "error"}
                /\ req[r].scan \in Replayed)
    /\ \A r \in Reqs : (InFlight(r) /\ ClosedUnder(r)) ~> Done(r)

\* the connection closed while an invocation waited for its blob: the socket
\* holds the first events only, the ledger entry all of them up to completed
C14_CompletedUnseen ==
    \E r \in Reqs :
        /\ Done(r) /\ ClosedUnder(r) /\ req[r].final = "result"
        /\ OnSocket(r) = <<EvQueued, EvStarted, EvFetchStart>>
        /\ InLedger(r) = req[r].trace
        /\ Len(InLedger(r)) > Len(OnSocket(r))
        /\ StatusOf(req[r].scan) = "completed"

(***************************************************************************)
(* C15  responses carry the correlation identifier                         *)
(***************************************************************************)
\* the messages sent in answer to an inbound message (ready and snapshot
\* answer the connection, pong is the keep-alive reply)
IsResponse(m) == m.type \in {"status", "error", "analysis_result"}

\* C15 as claimed: every status, result and error message the server sends
\* carries a correlation identifier, the one of the inbound message it
\* answers (the client's or the one randomUUID() made for it), also when the
\* inbound message was malformed.
C15_Correlated ==
    \A c \in Conns : \A i \in 1..Len(sent[c]) :
        IsResponse(sent[c][i]) => sent[c][i].requestId \in Reqs

(***************************************************************************)
(* C16  the coarse status of a ledger entry                                *)
(***************************************************************************)
\* the entry of a scan (IndexOf is not 0)
EntryOf(scan) == operations[IndexOf(operations, scan)]

\* the status the events of an entry determine: that of the last event that
\* signals a failure or is the final success, pending without one
RECURSIVE StatusFrom(_)
StatusFrom(events) ==
    IF events = <<>> THEN "pending"
    ELSE LET last == events[Len(events)]
         IN  IF last.event = EvCompleted THEN "completed"
             ELSE IF IncludesError(last.event) THEN "error"
             ELSE StatusFrom(SubSeq(events, 1, Len(events) - 1))

\* the data of the last final success among the events, NoResult without one
RECURSIVE ResultFrom(_)
ResultFrom(events) ==
    IF events = <<>> THEN NoResult
    ELSE LET last == events[Len(events)]
         IN  IF last.event = EvCompleted THEN last.data
             ELSE ResultFrom(SubSeq(events, 1, Len(events) - 1))

\* C16 as claimed: an event that neither signals a failure nor is the final
\* success leaves the status of the identifier's entry as it was, so that the
\* status is that of the last failure-or-success event ever recorded for it.
C16_StatusKept ==
    [][\A scan \in Scans :
          /\ lastAct' = "record"
          /\ IndexOf(operations, scan) # 0 /\ IndexOf(operations', scan) # 0
          /\ EntryOf(scan)' # EntryOf(scan)
          /\ StatusFrom(<<Last(EntryOf(scan).events)'>>) = "pending"
          => EntryOf(scan).status' = EntryOf(scan).status]_vars

\* C16: a record appends the event to the entry the prune before it has left,
\* or to a new entry with status pending; the status of every entry is that
\* of the last failure-or-success event among its own events, pending
\* without one, and its result is the data of its last final success.
C16_StatusFromEvents ==
    [][/\ \A scan \in Scans :
             lastAct' = "record" /\ IndexOf(operations', scan) # 0 =>
                 LET kept == pruneOperations(operations, now)
                     i == IndexOf(kept, scan)
                     before == IF i = 0 THEN <<>> ELSE kept[i].events
                 IN  /\ Len(EntryOf(scan).events') = Len(before) + 1
                     /\ IsPrefix(before, EntryOf(scan).events')
                     /\ EntryOf(scan).updatedAt' = now
       /\ \A i \in 1..Len(operations') :
             /\ operations'[i].status = StatusFrom(operations'[i].events)
             /\ operations'[i].result = ResultFrom(operations'[i].events)]_vars

\* an entry that failed, then completed, then saw one more stage event
C16_CompletedAfterError ==
    /\ IndexOf(operations, 1) # 0
    /\ EventNames(EntryOf(1).events) = <<EvAiError, EvCompleted, EvAiRequest>>
    /\ EntryOf(1).status = "completed"
    /\ EntryOf(1).result = EntryOf(1).events[2].data

(***************************************************************************)
(* C17  what a new connection is sent                                      *)
(***************************************************************************)
\* snapshot is what the connection handler may send for the ledger ops: at
\* most MAX_OPERATIONS of its entries, each once, most recently updated
\* first, and none that is left out was updated later than one it holds
IsSnapshotOf(snapshot, ops) ==
    /\ Len(snapshot) = IF Len(ops) < MAX_OPERATIONS THEN Len(ops) ELSE MAX_OPERATIONS
    /\ \A i \in 1..Len(snapshot) : \E j \in 1..Len(ops) : ops[j] = snapshot[i]
    /\ \A i, j \in 1..Len(snapshot) :
          /\ i < j => snapshot[i].updatedAt >= snapshot[j].updatedAt
          /\ i # j => snapshot[i].scan # snapshot[j].scan
    /\ \A j \in 1..Len(ops) :
          (\A i \in 1..Len(snapshot) : snapshot[i] # ops[j]) =>
              \A i \in 1..Len(snapshot) : snapshot[i].updatedAt >= ops[j].updatedAt

\* C17: the handler of a new connection sends ready first and then, if and
\* only if the ledger holds an entry, one snapshot message and nothing else;
\* the snapshot holds at most 50 entries of the ledger, the most recently
\* updated ones, ordered by updatedAt descending.
C17_ReadyThenSnapshot ==
    [][\A c \in Conns :
          connState[c] = "new" /\ connState'[c] = "open" =>
             /\ sent'[c][1].type = "ready"
             /\ Len(sent'[c]) = IF operations = <<>> THEN 1 ELSE 2
             /\ operations # <<>> =>
                   /\ sent'[c][2].type = "snapshot"
                   /\ Len(sent'[c][2].operations) <= MAX_OPERATIONS
                   /\ IsSnapshotOf(sent'[c][2].operations, operations)]_vars

\* a client has connected to a ledger of more than 50 entries: its snapshot
\* holds 50, the first updated later than the last, and leaves out an entry
\* updated before all of them
C17_TruncatedSnapshot ==
    /\ connState[1] = "open"
    /\ Len(operations) > MAX_OPERATIONS
    /\ Len(sent[1]) = 2
    /\ LET snapshot == sent[1][2].operations
       IN  /\ Len(snapshot) = MAX_OPERATIONS
           /\ \E j \in 1..Len(operations) :
                 operations[j].updatedAt < snapshot[MAX_OPERATIONS].updatedAt

(***************************************************************************)
(* C18  scans in progress and the snapshot                                 *)
(***************************************************************************)
\* an entry whose scan is still in progress: events were recorded for it and
\* none of them is a failure or the final success
InProgress(entry) == entry.events # <<>> /\ entry.status = "pending"

\* C18 as claimed: the snapshot a connecting client is sent holds, with its
\* latest events, the entry of every scan that is in progress, whatever else
\* was recorded.
C18_InProgressReplayed ==
    \A c \in Conns :
        connState[c] = "open" /\ Len(sent[c]) <= 2 =>
            \A j \in 1..Len(operations) :
                InProgress(operations[j]) =>
                    /\ Len(sent[c]) = 2
                    /\ \E i \in 1..Len(sent[c][2].operations) :
                          sent[c][2].operations[i] = operations[j]

(***************************************************************************)
(* C19  emission order                                                     *)
(***************************************************************************)
\* the events request r emits in the step
Emitted(r) == SubSeq(req'[r].trace, Len(req[r].trace) + 1, Len(req'[r].trace))

\* C19: the events an invocation emits in a step extend, in their order, what
\* it had emitted and what the ledger entry of its scan holds of it, and,
\* while its socket is open, what the socket was sent of it: an event emitted
\* before another precedes it in the entry and on the socket.
C19_EmissionOrder ==
    [][\A r \in Reqs :
          /\ IsPrefix(req[r].trace, req'[r].trace)
          /\ InLedger(r)' = InLedger(r) \o Emitted(r)
          /\ OnSocket(r)' = OnSocket(r) \o
                (IF req'[r].conn # 0 /\ connState[req'[r].conn] = "open"
                 THEN Emitted(r) ELSE <<>>)]_vars

\* two invocations for one scan on one open socket have ended; their events
\* are interleaved in the ledger entry and on the socket, and each has all
\* its events there in order
C19_Interleaved ==
    \E r1, r2 \in Reqs :
        /\ r1 # r2 /\ Done(r1) /\ Done(r2)
        /\ req[r1].scan = req[r2].scan /\ connState[req[r1].conn] = "open"
        /\ InLedger(r1) = req[r1].trace /\ OnSocket(r1) = req[r1].trace
        /\ InLedger(r2) = req[r2].trace /\ OnSocket(r2) = req[r2].trace
        /\ LET events == EntryOf(req[r1].scan).events
           IN  \E i, j, k \in 1..Len(events) :
                  /\ i < j /\ j < k
                  /\ events[i].requestId = r1
                  /\ events[j].requestId = r2
                  /\ events[k].requestId = r1

(***************************************************************************)
(* C20  curated fields of the record                                       *)
(***************************************************************************)
\* C20 as claimed: once the stored record of a scan holds a curated
\* item.model (neither empty nor the placeholder), no later invocation's
\* extraction changes it.
C20_CuratedKept ==
    [][\A s \in Scans :
          store[s].model # NoText => store'[s].model = store[s].model]_vars

(***************************************************************************)
(* C21  placeholders                                                       *)
(***************************************************************************)
\* C21 as claimed: in every stored record every string leaf of the schema,
\* those of the visual and inventory sections included, is a non-empty value
\* or the placeholder 'UNKNOWN'.
C21_NoEmptyLeaf ==
    \A s \in Scans :
        store[s].present => \A leaf \in StringLeaves : store[s].leaves[leaf] # ""

(***************************************************************************)
(* C22  media entries are unique by blob key                               *)
(***************************************************************************)
\* no key occurs twice in the media list
UniqueKeys(media) ==
    \A i, j \in 1..Len(media) : media[i] = media[j] => i = j

\* C22: the media list of every stored record, and of every record an
\* invocation has built, holds each blob key at most once, however the
\* invocations for the identifier interleave; an invocation that read a
\* record whose media list holds its key leaves the list as it read it.
C22_MediaDedup ==
    /\ \A s \in Scans : UniqueKeys(store[s].media)
    /\ \A r \in Reqs :
          /\ UniqueKeys(req[r].record.media)
          /\ (req[r].record.present /\
              \E i \in 1..Len(req[r].existing.media) :
                  req[r].existing.media[i] = req[r].key)
             => req[r].record.media = req[r].existing.media

\* a blob key was ingested, stored, and ingested again: the second invocation
\* read the record the first had stored, and the stored list still holds the
\* key once
C22_Reingested ==
    \E r1, r2 \in Reqs :
        /\ writers[1] = <<r1, r2>>
        /\ req[r1].key = req[r2].key
        /\ req[r2].existing.media = <<req[r1].key>>
        /\ store[1].media = <<req[r1].key>>

(***************************************************************************)
(* C23  the merge is idempotent                                            *)
(***************************************************************************)
\* the record request r has built, merged once more with the same capture
\* and the same inference envelope at time t
MergedAgain(r, t) ==
    MergeRecord(req[r].record, req[r].key, req[r].text, r, t)

\* C23: merging the observation of an invocation into the record that
\* invocation built from it gives that record again, whatever the time of the
\* second merge, except for meta.updated_at, which is that time.
C23_IdempotentMerge ==
    \A r \in Reqs :
        req[r].record.present =>
            \A t \in 1..MaxClock :
                /\ [MergedAgain(r, t) EXCEPT !.updated_at = req[r].record.updated_at]
                      = req[r].record
                /\ MergedAgain(r, t).updated_at = t

\* an invocation has merged a new capture with new text into a record that
\* was stored before, and a second merge would come at a later time
C23_MergedIntoStored ==
    \E r \in Reqs :
        /\ req[r].record.present /\ req[r].existing.present
        /\ req[r].record.media # req[r].existing.media
        /\ req[r].record.raw_text # req[r].existing.raw_text
        /\ req[r].record.updated_at < MaxClock
        /\ MergedAgain(r, MaxClock) # req[r].record

(***************************************************************************)
(* C24  an inference response that cannot be parsed                        *)
(***************************************************************************)
\* the inference of request r has returned a response that held no parsable
\* payload
Unparsed(r) == req[r].pc \in {"dbread", "dbwrite", "done"} /\ req[r].text = NoText

\* C24: an invocation whose inference response cannot be parsed goes on: it
\* emits ai.success and no failure event of the inference, merges an empty
\* observation (the text pool and item.model are those of the record it
\* read, its capture is added to media) and, unless the write to the record
\* store fails, ends with analysis.completed and no failure event.
C24_UnparsedGoesOn ==
    \A r \in Reqs :
        Unparsed(r) =>
            /\ IsPrefix(Upto("dbread"), req[r].trace)
            /\ Count(req[r].trace, {EvAiError, EvFetchError}) = 0
            /\ req[r].failedAt \in {"none", "dbwrite"}
            /\ req[r].record.present =>
                  /\ req[r].record.raw_text = req[r].existing.raw_text
                  /\ req[r].record.model = req[r].existing.model
                  /\ req[r].record.media = AddMedia(req[r].existing.media, req[r].key)
            /\ (Done(r) /\ req[r].failedAt = "none") =>
                  /\ req[r].final = "result"
                  /\ req[r].trace =
                        Upto("dbwrite") \o <<EvDbSuccess, EvCompleted, EvCompleted>>
                  /\ \E i \in 1..Len(writers[req[r].scan]) : writers[req[r].scan][i] = r

\* an invocation whose response could not be parsed has stored its record:
\* the capture is in media, the text pool is empty
C24_UnparsedStored ==
    \E r \in Reqs :
        /\ Unparsed(r) /\ Done(r) /\ req[r].final = "result"
        /\ store[req[r].scan] = req[r].record
        /\ store[req[r].scan].media = <<req[r].key>>
        /\ store[req[r].scan].raw_text = <<>>

(***************************************************************************)
(* C25  rejected messages never reach the pipeline                         *)
(***************************************************************************)
\* request r was rejected by the message handler
Rejected(r) == req[r].failedAt \in RejectKinds

\* C25: a message that is no JSON, has no type, has an unknown type or
\* carries a payload that fails validation is answered in the step that
\* receives it: the only event of it is the handler's error status (no
\* queued, no stage event), it never waits for an external call, it reads and
\* merges no record, it is no writer, and the step leaves the record store as
\* it was.
C25_RejectedAtBoundary ==
    [][\A r \in Reqs :
          Rejected(r)' =>
             /\ req'[r].trace = <<EvError>>
             /\ req'[r].pc = "done" /\ req'[r].final = "error"
             /\ req[r].pc \in {"unsent", "done"}
             /\ req'[r].key = NoKey
             /\ req'[r].existing = EmptyRecord /\ req'[r].record = EmptyRecord
             /\ \A s \in Scans : \A i \in 1..Len(writers'[s]) : writers'[s][i] # r
             /\ req'[r] # req[r] => store' = store /\ writers' = writers]_vars

\* a message whose payload fails validation named the scan of an invocation
\* that has stored its record; the record is still the stored one
C25_InvalidBesideStored ==
    \E r1, r2 \in Reqs :
        /\ req[r1].failedAt = "invalid" /\ req[r1].scan # NoScan
        /\ req[r2].scan = req[r1].scan /\ req[r2].final = "result"
        /\ store[req[r1].scan] = req[r2].record
        /\ req[r1].trace = <<EvError>>

(***************************************************************************)
(* C26  protocol errors                                                    *)
(***************************************************************************)
\* the error responses on socket c that carry the request id rid
ErrorResponses(c, rid) ==
    LET IsError(m) == m.type = "error" /\ m.requestId = rid
    IN  SelectSeq(sent[c], IsError)

\* C26 as claimed: a message that is no JSON, has no type or has an unknown
\* type is answered with exactly one error response scoped to it, that is,
\* carrying its correlation identifier, and the connection is left open.
C26_OneScopedError ==
    \A r \in Reqs :
        req[r].failedAt \in {"json", "notype", "unknown"} =>
            LET c == req[r].conn
            IN  closedBy[c] = "none" =>
                   /\ connState[c] = "open"
                   /\ Len(ErrorResponses(c, r)) = 1

(***************************************************************************)
(* The client alone: one browser, the server seen through its responses    *)
(***************************************************************************)
serverVars == <<operations, now, lastAct, lastPruned, snap, connState, isAlive,
                unanswered, closedBy, sent, req, store, writers>>

\* the sockets created so far
Sockets(cl) == Len(cl.older) + 1

\* connect() called by the page (onMount)
ClientConnect ==
    /\ client.sock \notin {"open", "connecting"} => Sockets(client) < MaxSockets
    /\ client' = connect(client)
    /\ UNCHANGED <<serverVars, camera, vision, hist>>

\* the callback scheduleReconnect gave setTimeout
ReconnectTimer ==
    /\ client.timers > 0
    /\ client.sock \notin {"open", "connecting"} => Sockets(client) < MaxSockets
    /\ client' = connect([client EXCEPT !.reconnectTimer = FALSE, !.timers = @ - 1])
    /\ UNCHANGED <<serverVars, camera, vision, hist>>

\* socket.onopen
SocketOpen ==
    /\ client.sock = "connecting"
    /\ client' = onopen([client EXCEPT !.sock = "open"])
    /\ UNCHANGED <<serverVars, camera, vision, hist>>

\* the server starts the closing handshake of the open socket
SocketClosing ==
    /\ client.sock = "open"
    /\ client' = [client EXCEPT !.sock = "closing", !.onSocket = {}]
    /\ UNCHANGED <<serverVars, camera, vision, hist>>

\* socket.onclose, of a socket that was open or never got open
SocketClose ==
    /\ client.sock \in {"connecting", "open", "closing"}
    /\ client' = onclose([client EXCEPT !.sock = "closed", !.onSocket = {}])
    /\ UNCHANGED <<serverVars, camera, vision, hist>>

\* onclose of a socket created before the present one
OlderClose(i) ==
    /\ i \in 1..Len(client.older)
    /\ client.older[i] # "closed"
    /\ client' = onclose([client EXCEPT !.older[i] = "closed"])
    /\ UNCHANGED <<serverVars, camera, vision, hist>>

\* sendRequest(type, payload): the request gets a fresh id, its timer and
\* its entry in pending, then the message is enqueued
SendRequest(type) ==
    /\ \E id \in ClientReqs :
        /\ client.type[id] = "none"
        /\ \A j \in 1..(id - 1) : client.type[j] # "none"
        /\ client' = enqueue([client EXCEPT !.type[id] = type,
                                            !.timer[id] = "armed",
                                            !.pending = @ \cup {id}], id)
    /\ UNCHANGED <<serverVars, camera, vision, hist>>

\* the timeout of request id elapses
TimerFires(id) ==
    /\ client.timer[id] = "armed"
    /\ client' = timeoutCallback(client, id)
    /\ UNCHANGED <<serverVars, camera, vision, hist>>

\* socket.onmessage with the one response the server gives a request it
\* received on this socket
ServerResponse(id, kind, message) ==
    /\ client.sock = "open"
    /\ id \in client.onSocket
    /\ client' = handleMessage([client EXCEPT !.onSocket = @ \ {id}], id, kind, message)
    /\ UNCHANGED <<serverVars, camera, vision, hist>>

ClientNext ==
    \/ ClientConnect
    \/ ReconnectTimer
    \/ SocketOpen
    \/ SocketClosing
    \/ SocketClose
    \/ \E i \in 1..MaxSockets : OlderClose(i)
    \/ \E type \in RequestTypes : SendRequest(type)
    \/ \E id \in ClientReqs : TimerFires(id)
    \/ \E id \in ClientReqs : ServerResponse(id, "result", NoMessage)
    \/ \E id \in ClientReqs, message \in ServerErrorTexts :
           ServerResponse(id, "error", message)

ClientSpec == Init /\ [][ClientNext]_vars

\* the callback given to window.setTimeout runs once its delay has passed,
\* unless clearTimeout was called for it
ClientFairSpec == ClientSpec /\ \A id \in ClientReqs : WF_vars(TimerFires(id))

(***************************************************************************)
(* C27  requests that time out                                             *)
(***************************************************************************)
\* the reasons a promise is rejected with other than its timeout
OtherErrors == {DisconnectError} \cup {ServerError(m) : m \in ServerErrorTexts \cup {NoMessage}}

\* C27: a request still pending has its timer armed, and once the timer of
\* a request has fired while it was pending the promise is rejected with
\* the timeout error of its type, which is neither a server-reported error
\* nor the disconnect error, and pending has no entry for it; a response
\* that comes later finds no entry and leaves the promise as it is
C27_TimedOut ==
    \A id \in ClientReqs :
        /\ id \in client.pending =>
               client.timer[id] = "armed" /\ client.promise[id] = Unsettled
        /\ client.timer[id] = "fired" =>
               /\ client.promise[id] = RejectedWith(TimeoutError(client.type[id]))
               /\ client.promise[id].reason \notin OtherErrors
               /\ id \notin client.pending

\* a request timed out and its response came afterwards
C27_LateResponse ==
    \E id \in ClientReqs : client.timer[id] = "fired" /\ id \in client.late

(***************************************************************************)
(* C28  the events of an entry                                             *)
(***************************************************************************)
\* the scans whose entries the pruneOperations() of the step deleted
Evicted == {lastPruned[i].scan : i \in 1..Len(lastPruned)}

\* C28: a step that finds the entry of a scan in the ledger and leaves it
\* there without having deleted it keeps the events the entry held as the
\* first events of the entry, in their order: events are only appended
C28_AppendOnly ==
    [][\A i \in 1..Len(operations) :
          LET scan == operations[i].scan
              j == IndexOf(operations', scan)
          IN  (j # 0 /\ scan \notin Evicted') =>
                  IsPrefix(operations[i].events, operations'[j].events)]_vars

\* a recordOperationEvent that deleted nothing has appended to an entry it
\* found in the ledger, which now holds as many events as the bound allows
C28_EntryGrown ==
    /\ lastAct = "record"
    /\ lastPruned = <<>>
    /\ \E i \in 1..Len(operations) : Len(operations[i].events) = MaxRecordEvents

(***************************************************************************)
(* C29  the inference envelope of the last invocation                      *)
(***************************************************************************)
\* the envelope of the response request r was given
EnvelopeOf(r) == Envelope(r, req[r].text)

\* C29: the record an invocation builds holds under extra.raw_response the
\* envelope of that invocation's response and nothing of the envelope it
\* read, and its media list is the list it read when that list holds its
\* blob key; the stored record holds the envelope of the invocation whose
\* write came last
C29_EnvelopeReplaced ==
    /\ \A r \in Reqs :
          req[r].record.present =>
              /\ req[r].record.raw_response = EnvelopeOf(r)
              /\ (\E i \in 1..Len(req[r].existing.media) :
                      req[r].existing.media[i] = req[r].key)
                 => req[r].record.media = req[r].existing.media
    /\ \A s \in Scans :
          writers[s] # <<>> => store[s].raw_response = EnvelopeOf(Last(writers[s]))

\* a blob key was ingested with a response that was parsed and ingested
\* again with one that was not: the stored record holds the key once and the
\* second envelope, whose output is empty
C29_ReingestedUnparsed ==
    \E r1, r2 \in Reqs :
        /\ writers[1] = <<r1, r2>>
        /\ req[r1].key = req[r2].key
        /\ req[r1].text # NoText /\ req[r2].text = NoText
        /\ req[r2].existing.raw_response = EnvelopeOf(r1)
        /\ store[1].media = <<req[r1].key>>
        /\ store[1].raw_response = Envelope(r2, NoText)

(***************************************************************************)
(* C30  what the client sends from its queue                               *)
(***************************************************************************)
\* C30 as claimed: every message flushQueue has sent when a socket opened
\* belonged to a request that was then pending; no request is transmitted
\* after its promise was rejected by its timeout or by the socket closing.
C30_OnlyPendingSent ==
    \A i \in 1..Len(client.wire) :
        client.wire[i].flushed => client.wire[i].live

(***************************************************************************)
(* C31  what a payload that fails validation leaves in the ledger          *)
(***************************************************************************)
\* C31 as claimed: the step that rejects a message whose payload fails
\* validation leaves the ledger as it was: no entry gains an event and no
\* entry changes its status, the entry of the scan the payload names
\* included.
C31_LedgerUntouched ==
    [][\A r \in Reqs :
          (req'[r].failedAt = "invalid" /\ req[r].pc = "unsent")
              => operations' = operations]_vars

(***************************************************************************)
(* C32  the size of the ledger at any time                                 *)
(***************************************************************************)
\* C32: the ledger never holds more than 2 * MAX_OPERATIONS + 1 entries:
\* recordOperationEvent prunes to at most 2 * MAX_OPERATIONS entries before
\* it inserts at most one, and the interval only prunes
C32_SizeBound == Len(operations) <= 2 * MAX_OPERATIONS + 1

\* the ledger holds 2 * MAX_OPERATIONS + 1 entries, none of them expired
C32_Full ==
    /\ Len(operations) = 2 * MAX_OPERATIONS + 1
    /\ \A i \in 1..Len(operations) : ~Expired(operations[i])

(***************************************************************************)
(* C33  every promise is settled once                                      *)
(***************************************************************************)
Issued(id) == client.type[id] # "none"

IsSettled(id) == client.promise[id] # Unsettled

\* C33: resolve or reject is called at most once for a request, and once it
\* was called pending has no entry for the request; no step changes the
\* promise of a request pending has no entry for, so a response whose id is
\* not pending settles nothing; and every request sendRequest was called for
\* is settled in the end, by its response, a server error, its timeout or
\* the close of the socket
C33_SettledOnce ==
    /\ [](\A id \in ClientReqs :
             /\ client.settles[id] <= 1
             /\ IsSettled(id) <=> client.settles[id] = 1
             /\ IsSettled(id) => id \notin client.pending)
    /\ [][\A id \in ClientReqs :
             id \notin client.pending => client'.promise[id] = client.promise[id]]_vars
    /\ \A id \in ClientReqs : Issued(id) ~> IsSettled(id)

\* one request was resolved by its response; the other was rejected and the
\* response that came for it afterwards found no entry
C33_ResolvedAndLate ==
    \E id1, id2 \in ClientReqs :
        /\ client.promise[id1] = Resolved
        /\ client.promise[id2].state = "rejected"
        /\ id2 \in client.late

(***************************************************************************)
(* The import page: one camera, its panel and its vision loop              *)
(***************************************************************************)
\* start(cameraObj) up to its await: nothing is changed before getUserMedia
\* returns
CameraStart ==
    /\ ~camera.active
    /\ camera.acquired + camera.acquiring < MaxStreams
    /\ camera' = [camera EXCEPT !.acquiring = @ + 1, !.stopped = FALSE]
    /\ UNCHANGED <<serverVars, hist, client, vision>>

\* getUserMedia returns a stream, or throws
AcquireReturn(ok) ==
    /\ camera.acquiring > 0
    /\ IF ok
       THEN LET stream == camera.acquired + 1
            IN  /\ camera' = [camera EXCEPT !.stream = stream, !.active = TRUE,
                                            !.acquiring = @ - 1,
                                            !.acquired = stream,
                                            !.live = @ \cup {stream},
                                            !.timers = @ \cup {stream}]
                /\ vision' = vision
       ELSE /\ camera' = [camera EXCEPT !.active = FALSE, !.stream = NoStream,
                                        !.acquiring = @ - 1]
            /\ vision' = stopLoop(vision)
    /\ UNCHANGED <<serverVars, hist, client>>

\* the callback start gave setTimeout: setVideoSource, then ensureLoop
EnsureTimer(stream) ==
    /\ stream \in camera.timers
    /\ camera' = [camera EXCEPT !.timers = @ \ {stream}]
    /\ vision' = ensureLoop(camera, vision)
    /\ UNCHANGED <<serverVars, hist, client>>

\* stop(cameraObj)
CameraStop ==
    /\ camera' = [camera EXCEPT !.live = @ \ {camera.stream}, !.stream = NoStream,
                                !.active = FALSE, !.stopped = TRUE]
    /\ vision' = stopLoop(vision)
    /\ UNCHANGED <<serverVars, hist, client>>

\* toggle(cameraObj)
CameraToggle == IF camera.active THEN CameraStop ELSE CameraStart

\* the panel of an active camera is rendered and binds its video element
PanelMount ==
    /\ camera.active /\ ~camera.videoEl
    /\ camera' = [camera EXCEPT !.videoEl = TRUE]
    /\ UNCHANGED <<serverVars, hist, client, vision>>

\* the panel of a camera no longer active is removed
PanelUnmount ==
    /\ ~camera.active /\ camera.videoEl
    /\ camera' = [camera EXCEPT !.videoEl = FALSE]
    /\ UNCHANGED <<serverVars, hist, client, vision>>

\* loadedmetadata of the panel's video element: onVideoReady(cameraObj)
VideoReady ==
    /\ camera.active /\ camera.videoEl
    /\ vision' = ensureLoop(camera, vision)
    /\ UNCHANGED <<serverVars, hist, client, camera>>

\* the checkbox of the panel: handleVisionToggleInternal(cameraObj, enabled)
VisionToggle(enabled) ==
    /\ camera.active /\ camera.videoEl
    /\ vision' = IF enabled THEN startLoop(camera, [vision EXCEPT !.enabled = TRUE])
                 ELSE stopLoop([vision EXCEPT !.enabled = FALSE])
    /\ UNCHANGED <<serverVars, hist, client, camera>>

\* a loop body comes to the head of its while loop: it goes on, or it exits
\* and the finally callback of its promise runs
LoopTop ==
    /\ vision.loops > 0
    /\ vision' = IF LoopGoesOn(camera, vision) THEN vision
                 ELSE [vision EXCEPT !.loops = @ - 1, !.loopPromise = FALSE,
                                     !.cancelLoop = FALSE]
    /\ UNCHANGED <<serverVars, hist, client, camera>>

PageNext ==
    \/ CameraToggle
    \/ CameraStop
    \/ \E ok \in BOOLEAN : AcquireReturn(ok)
    \/ \E stream \in 1..MaxStreams : EnsureTimer(stream)
    \/ PanelMount
    \/ PanelUnmount
    \/ VideoReady
    \/ \E enabled \in BOOLEAN : VisionToggle(enabled)
    \/ LoopTop

PageSpec == Init /\ [][PageNext]_vars

\* getUserMedia settles, a timer that is due fires, and a loop body that
\* waits is resumed
PageFairSpec ==
    /\ PageSpec
    /\ WF_vars(\E ok \in BOOLEAN : AcquireReturn(ok))
    /\ WF_vars(\E stream \in 1..MaxStreams : EnsureTimer(stream))
    /\ WF_vars(LoopTop)

(***************************************************************************)
(* C34  a loop for every camera with vision enabled                        *)
(***************************************************************************)
VisionWanted == vision.enabled /\ camera.active /\ camera.videoEl

\* C34 as claimed: whenever vision is enabled on an active camera with a
\* video element, a recognition loop is running or starts later (or vision
\* is disabled or the camera stopped meanwhile).
C34_LoopForEnabled == VisionWanted ~> (vision.loopPromise \/ ~VisionWanted)

(***************************************************************************)
(* C35  the streams of a camera                                            *)
(***************************************************************************)
\* C35 as claimed: the streams acquired for the camera and not yet stopped
\* are none or the one the descriptor holds, and after stop() with no later
\* start() the camera is inactive and holds no stream.
C35_OneLiveStream ==
    /\ camera.live = {} \/ camera.live = {camera.stream}
    /\ camera.stopped => ~camera.active /\ camera.stream = NoStream

(***************************************************************************)
(* C36  one socket and one reconnect timer                                 *)
(***************************************************************************)
\* the sockets created so far that are CONNECTING or OPEN
LiveSockets ==
    Cardinality({i \in 1..Len(client.older) : client.older[i] \in {"connecting", "open"}})
        + (IF client.sock \in {"connecting", "open"} THEN 1 ELSE 0)

\* C36: at most one of the sockets the client created is CONNECTING or OPEN
\* and at most one reconnect timer is scheduled, which the variable
\* reconnectTimer holds; a step in which the socket opens leaves
\* reconnectAttempts at 0
C36_OneSocketOneTimer ==
    /\ [](/\ LiveSockets <= 1
          /\ client.timers <= 1
          /\ client.reconnectTimer <=> client.timers = 1)
    /\ [][(client.sock # "open" /\ client'.sock = "open")
              => client'.attempts = 0]_vars

\* connect() was called while the socket was closing: the new socket is
\* open, and the close of the old one has scheduled a reconnect timer
C36_OldSocketClosedLater ==
    /\ client.sock = "open"
    /\ client.older = <<"closed">>
    /\ client.timers = 1
    /\ client.attempts = 1

(***************************************************************************)
(* The upload manager: one entry, its uploads and the status events        *)
(***************************************************************************)
pageVars == <<client, camera, vision>>

\* every callback of uploadEntry has returned
AllReturned(entry) == \A i \in Uploads : entry.uploads[i].pc = "done"

\* uploadEntry after a callback has run: when all have returned Promise.all
\* resolves and the entry status is updated
AfterCallback(entry) ==
    IF AllReturned(entry)
    THEN [updateEntryStatus(entry) EXCEPT !.lastOp = "uploadEntry", !.replayed = FALSE]
    ELSE [entry EXCEPT !.lastOp = "step", !.replayed = FALSE]

\* uploadEntry(entry), called by scanEvent right after createEntry, up to
\* the first await of each callback; the images in bad give no blob
UploadStart(bad) ==
    /\ hist.lastOp = "createEntry"
    /\ hist' = AfterCallback(
                   [hist EXCEPT !.status = "uploading",
                                !.uploads = [i \in Uploads |->
                                    IF i \in bad THEN [status |-> "error", pc |-> "done"]
                                    ELSE [status |-> "uploading", pc |-> "presign"]]])
    /\ UNCHANGED <<serverVars, pageVars>>

\* the callback of upload i is resumed: the call it awaited (the presign
\* request, the upload to S3, the upload_complete request) has returned, or
\* has thrown at the time stamp
UploadReturn(i, ok, stamp) ==
    /\ hist.uploads[i].pc \in {"presign", "s3", "analysis"}
    /\ LET pc == hist.uploads[i].pc
           next == IF ~ok
                   THEN recordEvent([hist EXCEPT !.uploads[i] =
                                                    [status |-> "error", pc |-> "done"]],
                                    [event |-> EvClientError, timestamp |-> stamp])
                   ELSE IF pc = "presign" THEN [hist EXCEPT !.uploads[i].pc = "s3"]
                   ELSE IF pc = "s3"
                   THEN [hist EXCEPT !.uploads[i] = [status |-> "analyzing",
                                                    pc |-> "analysis"]]
                   ELSE [hist EXCEPT !.uploads[i] = [status |-> "success", pc |-> "done"]]
       IN  hist' = AfterCallback(next)
    /\ UNCHANGED <<serverVars, pageVars>>

\* the names of the status events delivered to the page
StatusNames == {EvQueued, EvCompleted, EvAiError}

Holds(list, event, stamp) ==
    \E i \in 1..Len(list) : list[i].event = event /\ list[i].timestamp = stamp

\* the status events of the server the entry holds
ServerEvents(list) == Cardinality({i \in 1..Len(list) : list[i].event # EvClientError})

\* handleStatus(status) for a status that names the scan of the entry, live
\* or out of a snapshot
HandleStatus(fileName, event, stamp) ==
    /\ hist.lastOp # "createEntry"
    /\ \/ ServerEvents(hist.events) < MaxEntryEvents
       \/ Holds(hist.events, event, stamp)
       \/ stamp = NoStamp
    /\ hist' = [handleStatus(hist, [fileName |-> fileName, event |-> event,
                                    timestamp |-> stamp])
                   EXCEPT !.lastOp = "handleStatus",
                          !.replayed = Holds(hist.events, event, stamp)]
    /\ UNCHANGED <<serverVars, pageVars>>

\* handleStatus(status) for a status without scan or of a scan the history
\* does not hold
HandleStatusElsewhere ==
    /\ hist.lastOp # "createEntry"
    /\ hist' = [hist EXCEPT !.lastOp = "ignored", !.replayed = FALSE]
    /\ UNCHANGED <<serverVars, pageVars>>

UploadNext ==
    \/ \E bad \in SUBSET Uploads : UploadStart(bad)
    \/ \E i \in Uploads, ok \in BOOLEAN, stamp \in 1..MaxStamp : UploadReturn(i, ok, stamp)
    \/ \E fileName \in {NoFile} \cup Uploads, event \in StatusNames,
          stamp \in NoStamp..MaxStamp : HandleStatus(fileName, event, stamp)
    \/ HandleStatusElsewhere

UploadSpec == Init /\ [][UploadNext]_vars

(***************************************************************************)
(* C37  the status of an entry and of its uploads                          *)
(***************************************************************************)
\* C37: after a handleStatus call that found the entry, and after
\* uploadEntry has finished, the entry has status success only if every
\* upload has status success and has status error whenever an upload has
\* status error
C37_EntryFollowsUploads ==
    hist.lastOp \in {"handleStatus", "uploadEntry"} =>
        /\ hist.status = "success" =>
               \A i \in Uploads : hist.uploads[i].status = "success"
        /\ (\E i \in Uploads : hist.uploads[i].status = "error") =>
               hist.status = "error"

\* a completed event came while one upload had succeeded and another was
\* still analyzing: the entry is uploading, not success
C37_CompletedBeforeAll ==
    /\ hist.lastOp = "handleStatus"
    /\ \E i \in 1..Len(hist.events) : hist.events[i].event = EvCompleted
    /\ \E i, j \in Uploads : /\ hist.uploads[i].status = "success"
                              /\ hist.uploads[j].status = "analyzing"
    /\ hist.status = "uploading"

(***************************************************************************)
(* C38  one recognition loop per camera                                    *)
(***************************************************************************)
\* C38: at most one loop body runs for the camera, and loopPromise is set
\* exactly while one runs: startLoop starts none while loopPromise is set,
\* and loopPromise is cleared by the loop that exits
C38_OneLoop ==
    /\ vision.loops <= 1
    /\ vision.loopPromise <=> vision.loops = 1

\* startLoop was called while the loop was running and started none: the
\* one loop still runs
C38_StartRefused ==
    /\ vision.refused
    /\ vision.loops = 1 /\ vision.loopPromise
    /\ vision.enabled /\ ~vision.cancelLoop

(***************************************************************************)
(* C39  a status event delivered twice                                     *)
(***************************************************************************)
\* the status events handleStatus may be given for the entry
StatusEvents ==
    [fileName : {NoFile} \cup Uploads, event : StatusNames, timestamp : NoStamp..MaxStamp]

\* C39: the events of the entry are unique by timestamp and event name and
\* all have a timestamp; for every status event, handling it twice leaves
\* the list handling it once leaves, and one without timestamp leaves the
\* list as it is
C39_DeliveredTwice ==
    /\ \A i, j \in 1..Len(hist.events) :
          (/\ hist.events[i].timestamp = hist.events[j].timestamp
           /\ hist.events[i].event = hist.events[j].event) => i = j
    /\ \A i \in 1..Len(hist.events) : hist.events[i].timestamp # NoStamp
    /\ \A status \in StatusEvents :
          /\ handleStatus(handleStatus(hist, status), status).events
                = handleStatus(hist, status).events
          /\ status.timestamp = NoStamp => handleStatus(hist, status).events = hist.events

\* the last handleStatus call brought an event the entry already held,
\* after another event had been recorded behind it
C39_Replayed ==
    /\ hist.lastOp = "handleStatus" /\ hist.replayed
    /\ Len(hist.events) >= 2


=============================================================================
